---- MODULE Spec2Model ----
(***************************************************************************)
(* sagemaker-rightline: the path resolver (Validation.get_attribute), the  *)
(* rules (Equals, Contains), the validations, Configuration.run and the    *)
(* command line entry point, as state machines over Python values.         *)
(*                                                                         *)
(* A Python str is a sequence of one-character strings, so that split,     *)
(* replace, endswith, the bracket regular expression and the f-strings of  *)
(* the source are computed character by character.  Every other Python     *)
(* value is a record with one field naming its type:                       *)
(*   [str |-> chars]  [int |-> n]  [none |-> TRUE]  [list |-> sequence]    *)
(*   [dict |-> items]  [obj |-> function from attribute name to value]     *)
(* and a raised exception is [exc |-> name].                               *)
(*                                                                         *)
(* A local variable of the source that is assigned once and read several   *)
(* times is the parameter of a local operator applied to the assigned      *)
(* value.                                                                  *)
(***************************************************************************)
EXTENDS Integers, Sequences, FiniteSets, TLC

VARIABLES
    sagemaker_pipeline,  \* the caller's pipeline graph
    registry,            \* the images registered in ECR (the mocked service)
    caller,              \* "api": the caller uses Configuration itself; "cli": main()
    validations,         \* the `validations` argument of Configuration(...)
    self_validations,    \* Configuration.validations, PyNone before construction
    pc,                  \* where the caller is: see Next
    fail_fast,           \* the fail_fast argument of the run in progress
    return_df,           \* the return_df argument of the run in progress
    ix,                  \* Configuration.run: positions already iterated
    results,             \* Configuration.run: the local list `results`
    executed,            \* the positions whose validation.run was called, in call order
    returned_by_run,     \* what each of these calls returned or raised, in call order
    outcome,             \* what the call returned or raised
    exit_code,           \* main(): the code of the SystemExit, -1 before it
    rule,                \* rule scenario: the rule under test
    observed,            \* rule scenario: its observed operand
    expected,            \* rule scenario: its expected operand
    rule_result,         \* rule scenario: what rule.run returned
    query,               \* path scenario: how each path handed to get_attribute was built
    filtered_steps,      \* path scenario: what get_filtered_attributes returned
    resolved,            \* path scenario: what the first call of get_attribute returned
    resolved_again,      \* path scenario: what the second call of get_attribute returned
    pipeline_before,     \* the caller's pipeline graph as it was handed in
    current_validation,  \* validation scenario: the validation last run or constructed
    current_result,      \* validation scenario: what its run returned or raised
    lambda_functions,    \* validation scenario: the functions the Lambda service knows
    iam_roles,           \* validation scenario: the roles IAM knows
    arguments            \* constructor scenario: the arguments of StepInputsAsExpected(...)

vars == <<sagemaker_pipeline, registry, caller, validations, self_validations, pc, fail_fast,
          return_df, ix, results, executed, returned_by_run, outcome, exit_code,
          rule, observed, expected, rule_result,
          query, filtered_steps, resolved, resolved_again, pipeline_before,
          current_validation, current_result, lambda_functions, iam_roles, arguments>>

config_vars == <<sagemaker_pipeline, registry, caller, validations, self_validations,
                 fail_fast, return_df, ix, results, executed, returned_by_run, outcome,
                 exit_code>>

rule_vars == <<rule, observed, expected, rule_result>>

path_vars == <<query, filtered_steps, resolved, resolved_again>>

\* what the actions of each scenario leave alone
run_vars == <<current_validation, current_result, lambda_functions, iam_roles, arguments>>

outside_config == <<rule_vars, path_vars, run_vars, pipeline_before>>

outside_rule == <<config_vars, path_vars, run_vars, pipeline_before>>

outside_run == <<caller, validations, self_validations, fail_fast, return_df, ix, results,
                 executed, returned_by_run, outcome, exit_code, rule_vars, path_vars,
                 pipeline_before>>

outside_path == <<registry, caller, validations, self_validations, fail_fast, return_df,
                  ix, results, executed, returned_by_run, outcome, exit_code,
                  rule_vars, run_vars, pipeline_before>>

----------------------------------------------------------------------------
(* Bounds of the model *)

MaxValidations == 3      \* longest list handed to Configuration

MaxOperandLen == 2       \* longest observed / expected list handed to a rule

MaxSteps == 2            \* most steps of a pipeline handed to the path resolver

MaxPairs == 2            \* most pairs handed to StepOutputsMatchInputsAsExpected

----------------------------------------------------------------------------
(* Python values *)

PyStr(s) == [str |-> s]

PyInt(n) == [int |-> n]

PyBool(b) == [bool |-> b]

PyNone == [none |-> TRUE]

PyList(xs) == [list |-> xs]

PyDict(f) == [dict |-> f]

PyObj(f) == [obj |-> f]

Raise(e) == [exc |-> e]

IsExc(x) == "exc" \in DOMAIN x

IsStr(x) == "str" \in DOMAIN x

IsList(x) == "list" \in DOMAIN x

IsDict(x) == "dict" \in DOMAIN x

IsObj(x) == "obj" \in DOMAIN x

IsNone(x) == "none" \in DOMAIN x

IsInt(x) == "int" \in DOMAIN x

Range(s) == {s[i] : i \in DOMAIN s}

----------------------------------------------------------------------------
(* Python str operations, on sequences of characters *)

Min(S) == CHOOSE a \in S : \A b \in S : a <= b

Max(S) == CHOOSE a \in S : \A b \in S : b <= a

\* whether sep occurs in s at position i
OccursAt(s, i, sep) ==
    /\ i + Len(sep) - 1 <= Len(s)
    /\ SubSeq(s, i, i + Len(sep) - 1) = sep

RECURSIVE SplitFrom(_, _, _, _)
SplitFrom(s, sep, i, start) ==
    IF i > Len(s) THEN <<SubSeq(s, start, Len(s))>>
    ELSE IF OccursAt(s, i, sep)
         THEN <<SubSeq(s, start, i - 1)>> \o SplitFrom(s, sep, i + Len(sep), i + Len(sep))
         ELSE SplitFrom(s, sep, i + 1, start)

\* s.split(sep), sep not empty
Split(s, sep) == SplitFrom(s, sep, 1, 1)

RECURSIVE Join(_, _)
\* sep.join(parts)
Join(parts, sep) ==
    IF Len(parts) = 0 THEN <<>>
    ELSE IF Len(parts) = 1 THEN parts[1]
    ELSE parts[1] \o sep \o Join(Tail(parts), sep)

\* s.replace(old, new), old not empty
Replace(s, old, new) == Join(Split(s, old), new)

\* s.endswith(suffix)
EndsWith(s, suffix) ==
    /\ Len(suffix) <= Len(s)
    /\ SubSeq(s, Len(s) - Len(suffix) + 1, Len(s)) = suffix

\* `needle in s` for two strs
Contains_str(s, needle) == \E i \in 1..(Len(s) + 1) : OccursAt(s, i, needle)

\* re.search("\[(.*?)\]", s): group(1) of the leftmost, shortest match, as
\* [group |-> chars], or PyNone when nothing matches
BracketSearch(s) ==
    LET closes_after(i) == {j \in DOMAIN s : j > i /\ s[j] = "]"}
        match(opens) ==
            IF opens = {} THEN PyNone
            ELSE LET group(i) == [group |-> SubSeq(s, i + 1, Min(closes_after(i)) - 1)]
                 IN group(Min(opens))
    IN match({i \in DOMAIN s : s[i] = "[" /\ closes_after(i) # {}})

----------------------------------------------------------------------------
(* model.py: Validation.get_filtered_attributes and Validation.get_attribute *)

\* hasattr(x, name)
hasattr(x, name) == IsObj(x) /\ name \in DOMAIN x.obj

\* getattr(x, name)
getattr(x, name) == IF hasattr(x, name) THEN x.obj[name] ELSE Raise("AttributeError")

RECURSIVE GetAttrChain(_, _)
GetAttrChain(x, names) ==
    IF Len(names) = 0 THEN x
    ELSE LET next(y) == IF IsExc(y) THEN y ELSE GetAttrChain(y, Tail(names))
         IN next(getattr(x, Head(names)))

\* operator.attrgetter(key)(subject): one getattr per dot-separated name
attrgetter(key, subject) == GetAttrChain(subject, Split(key, <<".">>))

\* an iteration that stops one element early
Iterate_without_last(value) ==
    IF IsList(value) THEN [items |-> SubSeq(value.list, 1, Len(value.list) - 1)]
    ELSE Raise("TypeError")

\* `for x in value`: the items as [items |-> sequence], TypeError when value
\* is not iterable
Iterate(value) ==
    IF IsList(value) THEN [items |-> value.list]
    ELSE IF IsStr(value) THEN [items |-> [i \in DOMAIN value.str |-> PyStr(<<value.str[i]>>)]]
    ELSE IF IsDict(value) THEN [items |-> [i \in DOMAIN value.dict |-> value.dict[i][1]]]
    ELSE Raise("TypeError")

\* copy.copy(x): a new object holding the same attribute values
copy(x) == x

\* lines 90-95: the conditions of the first bracket of path, blanks removed,
\* split at "&&", empty ones dropped, "/" turned into "."
filter_conditions(path) ==
    LET slash_to_dot(kept) == [i \in DOMAIN kept |-> Replace(kept[i], <<"/">>, <<".">>)]
        conditions(m) ==
            IF IsNone(m) THEN Raise("AttributeError")
            ELSE [conds |-> slash_to_dot(SelectSeq(
                                Split(Replace(m.group, <<" ">>, <<>>), <<"&", "&">>),
                                LAMBDA c : Len(c) > 0))]
    IN conditions(BracketSearch(path))

RECURSIVE MatchList(_, _)
\* lines 97-103: the list `match` of one subject; every condition is evaluated
MatchList(conds, subject) ==
    IF Len(conds) = 0 THEN [match |-> <<>>]
    ELSE LET compare(kv) ==
                 IF Len(kv) # 2 THEN Raise("ValueError")
                 ELSE LET prepend(got, rest) ==
                              IF IsExc(got) THEN got
                              ELSE IF IsExc(rest) THEN rest
                              ELSE [match |-> <<got = PyStr(kv[2])>> \o rest.match]
                      IN prepend(attrgetter(kv[1], subject), MatchList(Tail(conds), subject))
         IN compare(Split(Head(conds), <<"=", "=">>))

\* any(match) in the place of all(match)
any(match) == \E k \in DOMAIN match : match[k]

\* all(match)
all(match) == \A k \in DOMAIN match : match[k]

RECURSIVE FilterSubjects(_, _)
\* lines 96-106: the subjects all of whose conditions match, in order
FilterSubjects(conds, subjects) ==
    IF Len(subjects) = 0 THEN PyList(<<>>)
    ELSE LET keep(m, rest) ==
                 IF IsExc(m) THEN m
                 ELSE IF IsExc(rest) THEN rest
                 ELSE PyList((IF all(m.match) THEN <<Head(subjects)>> ELSE <<>>) \o rest.list)
         IN keep(MatchList(conds, Head(subjects)), FilterSubjects(conds, Tail(subjects)))

get_filtered_attributes(filter_subject, path) ==
    LET filtered(c, it) ==
            IF IsExc(c) THEN c
            ELSE IF IsExc(it) THEN it
            ELSE FilterSubjects(c.conds, it.items)
    IN filtered(filter_conditions(path), Iterate(filter_subject))

RECURSIVE SelectAttr_padded(_, _)
\* a comprehension without its condition, None standing for a missing attribute
SelectAttr_padded(items, attr) ==
    IF Len(items) = 0 THEN <<>>
    ELSE <<IF hasattr(Head(items), attr) THEN getattr(Head(items), attr) ELSE PyNone>>
         \o SelectAttr_padded(Tail(items), attr)

RECURSIVE SelectAttr(_, _)
\* lines 137-141: [getattr(s, attr) for s in items if hasattr(s, attr)]
SelectAttr(items, attr) ==
    IF Len(items) = 0 THEN <<>>
    ELSE (IF hasattr(Head(items), attr) THEN <<getattr(Head(items), attr)>> ELSE <<>>)
         \o SelectAttr(Tail(items), attr)

RECURSIVE WalkSegments(_, _, _)
\* lines 127-141: the loop over attr_path from position i on, cur being the
\* working value sm_pipeline_copy
WalkSegments(cur, attr_path, i) ==
    IF i > Len(attr_path) THEN cur
    ELSE LET next(value) == IF IsExc(value) THEN value ELSE WalkSegments(value, attr_path, i + 1)
             filtered(attr, got) ==
                 IF IsExc(got) THEN got
                 ELSE IF attr[Len(attr) - 1] # "["
                      THEN next(get_filtered_attributes(
                                    got, Join(SubSeq(attr_path, i, Len(attr_path)), <<".">>)))
                      ELSE next(got)
             selected(attr, it) ==
                 IF IsExc(it) THEN it ELSE next(PyList(SelectAttr(it.items, attr)))
             segment(attr) ==
                 IF EndsWith(attr, <<"]">>)
                 THEN IF Len(attr) < 2 THEN Raise("IndexError")
                      ELSE filtered(attr, getattr(cur, Split(attr, <<"[">>)[1]))
                 ELSE selected(attr, Iterate(cur))
         IN segment(attr_path[i])

RECURSIVE ResolvePaths_first_only(_, _)
\* a resolution that stops after the first path
ResolvePaths_first_only(pipeline, paths) ==
    IF Len(paths) = 0 THEN [result |-> <<>>]
    ELSE LET only(cur) == IF IsExc(cur) THEN cur ELSE [result |-> <<cur>>]
         IN only(WalkSegments(copy(pipeline), Tail(Split(Head(paths), <<".">>)), 1))

RECURSIVE ResolvePaths(_, _)
\* lines 123-142: the list `result`, one entry per path
ResolvePaths(pipeline, paths) ==
    IF Len(paths) = 0 THEN [result |-> <<>>]
    ELSE LET append(cur, rest) ==
                 IF IsExc(cur) THEN cur
                 ELSE IF IsExc(rest) THEN rest
                 ELSE [result |-> <<cur>> \o rest.result]
         IN append(WalkSegments(copy(pipeline), Tail(Split(Head(paths), <<".">>)), 1),
                   ResolvePaths(pipeline, Tail(paths)))

RECURSIVE Flatten_last_first(_)
\* a flattening that takes the entries of result from the last to the first
Flatten_last_first(ys) ==
    IF Len(ys) = 0 THEN PyList(<<>>)
    ELSE PyList(Flatten_last_first(Tail(ys)).list \o Head(ys).list)

RECURSIVE Flatten(_)
\* line 143: [x for y in result for x in y]
Flatten(ys) ==
    IF Len(ys) = 0 THEN PyList(<<>>)
    ELSE LET extend(it, rest) ==
                 IF IsExc(it) THEN it
                 ELSE IF IsExc(rest) THEN rest
                 ELSE PyList(it.items \o rest.list)
         IN extend(Iterate(Head(ys)), Flatten(Tail(ys)))

get_attribute(pipeline, paths) ==
    LET flat(r) == IF IsExc(r) THEN r ELSE Flatten(r.result)
    IN flat(ResolvePaths(pipeline, paths))

----------------------------------------------------------------------------
(* Python built-ins used by the rules *)

\* a dict is the sequence of its <<key, value>> items in insertion order
DictKeys(d) == {d.dict[i][1] : i \in DOMAIN d.dict}

RECURSIVE PyEq(_, _)
\* x == y: dicts compare by items whatever their order, lists item by item
PyEq(x, y) ==
    IF IsDict(x) /\ IsDict(y)
    THEN /\ DictKeys(x) = DictKeys(y)
         /\ \A i \in DOMAIN x.dict : \E j \in DOMAIN y.dict :
                /\ x.dict[i][1] = y.dict[j][1]
                /\ PyEq(x.dict[i][2], y.dict[j][2])
    ELSE IF IsList(x) /\ IsList(y)
    THEN /\ Len(x.list) = Len(y.list)
         /\ \A i \in DOMAIN x.list : PyEq(x.list[i], y.list[i])
    ELSE x = y

\* hash(x) is defined: lists and dicts are unhashable
Hashable(x) == ~IsList(x) /\ ~IsDict(x)

\* a comparison that keeps order and duplicates: the list itself
set_keeps_order(x) == IF IsList(x) THEN [set |-> x.list] ELSE Raise("TypeError")

\* set(x) as [set |-> elements]: the items of a list, the keys of a dict, the
\* characters of a str; TypeError for an unhashable item or a value that is
\* not iterable
set(x) ==
    IF IsList(x)
    THEN IF \A i \in DOMAIN x.list : Hashable(x.list[i])
         THEN [set |-> Range(x.list)] ELSE Raise("TypeError")
    ELSE IF IsDict(x) THEN [set |-> DictKeys(x)]
    ELSE IF IsStr(x) THEN [set |-> {PyStr(<<x.str[i]>>) : i \in DOMAIN x.str}]
    ELSE Raise("TypeError")

\* `item in container` as [bool |-> b], TypeError when container is no container
In(item, container) ==
    IF IsList(container)
    THEN [bool |-> \E i \in DOMAIN container.list : PyEq(item, container.list[i])]
    ELSE IF IsDict(container)
    THEN IF Hashable(item) THEN [bool |-> item \in DictKeys(container)] ELSE Raise("TypeError")
    ELSE IF IsStr(container)
    THEN IF IsStr(item) THEN [bool |-> Contains_str(container.str, item.str)]
         ELSE Raise("TypeError")
    ELSE Raise("TypeError")

Digits == <<"0", "1", "2", "3", "4", "5", "6", "7", "8", "9">>

RECURSIVE NatChars(_)
NatChars(n) == IF n < 10 THEN <<Digits[n + 1]>> ELSE NatChars(n \div 10) \o <<Digits[(n % 10) + 1]>>

RECURSIVE repr(_)
\* repr(x)
repr(x) ==
    IF IsStr(x) THEN <<"'">> \o x.str \o <<"'">>
    ELSE IF IsInt(x) THEN (IF x.int < 0 THEN <<"-">> \o NatChars(-x.int) ELSE NatChars(x.int))
    ELSE IF IsNone(x) THEN <<"N", "o", "n", "e">>
    ELSE IF IsList(x)
    THEN <<"[">> \o Join([i \in DOMAIN x.list |-> repr(x.list[i])], <<",", " ">>) \o <<"]">>
    ELSE IF IsDict(x)
    THEN <<"{">>
         \o Join([i \in DOMAIN x.dict |->
                     repr(x.dict[i][1]) \o <<":", " ">> \o repr(x.dict[i][2])], <<",", " ">>)
         \o <<"}">>
    ELSE <<"<", "o", "b", "j", "e", "c", "t", ">">>

\* str(x)
str(x) == IF IsStr(x) THEN x.str ELSE repr(x)

IsBool(x) == "bool" \in DOMAIN x

\* bool(x) for the values handed to `not`
Truthy(x) ==
    IF IsNone(x) THEN FALSE
    ELSE IF IsList(x) THEN Len(x.list) > 0
    ELSE IF "tuple" \in DOMAIN x THEN Len(x.tuple) > 0
    ELSE IF IsStr(x) THEN Len(x.str) > 0
    ELSE IF IsDict(x) THEN Len(x.dict) > 0
    ELSE IF IsInt(x) THEN x.int # 0
    ELSE IF IsBool(x) THEN x.bool
    ELSE TRUE

----------------------------------------------------------------------------
(* model.py: ValidationResult; rules.py: Equals and Contains *)

ValidationResult(validation_name, success, negative, message, subject) ==
    [validation_name |-> validation_name, success |-> success, negative |-> negative,
     message |-> message, subject |-> subject]

IsResult(x) == "success" \in DOMAIN x

\* Rule.__init__
Rule(name, negative) == [rule |-> name, negative |-> negative]

Equals(negative) == Rule(<<"E", "q", "u", "a", "l", "s">>, negative)

Contains(negative) == Rule(<<"C", "o", "n", "t", "a", "i", "n", "s">>, negative)

\* all(item in container for item in items)
all_in(items, container) == \A i \in DOMAIN items : In(items[i], container).bool

\* an equality of nested lists that looks for the items of expected only
is_equal_one_way(obs, exp) ==
    LET compare(so, se) ==
            IF ~IsExc(so) /\ ~IsExc(se) THEN so.set = se.set
            ELSE IF IsDict(obs) /\ IsDict(exp) THEN PyEq(obs, exp)
            ELSE IF IsList(obs) /\ IsList(exp) THEN all_in(exp.list, obs)
            ELSE PyEq(obs, exp)
    IN compare(set(obs), set(exp))

\* rules.py lines 36-49: is_equal before the negation
is_equal(obs, exp) ==
    LET compare(so, se) ==
            IF ~IsExc(so) /\ ~IsExc(se) THEN so.set = se.set
            ELSE IF IsDict(obs) /\ IsDict(exp) THEN PyEq(obs, exp)
            ELSE IF IsList(obs) /\ IsList(exp)
            THEN all_in(exp.list, obs) /\ all_in(obs.list, exp)
            ELSE PyEq(obs, exp)
    IN compare(set(obs), set(exp))

\* rules.py lines 51-58
Equals_run(self, obs, exp, validation_name) ==
    LET result(verdict, str_exp) ==
            ValidationResult(
                validation_name, verdict, self.negative,
                str(obs) \o <<" ", "d", "o", "e", "s", " ">>
                    \o (IF ~verdict THEN <<"n", "o", "t", " ">> ELSE <<>>)
                    \o <<"e", "q", "u", "a", "l", " ">> \o str_exp,
                PyStr(str_exp))
    IN result(is_equal(obs, exp) # self.negative, str(exp))

RECURSIVE is_contained_consuming(_, _)
\* a containment in which every match uses up the matched item of observed
is_contained_consuming(obs, items) ==
    IF Len(items) = 0 THEN [bool |-> TRUE]
    ELSE IF ~IsList(obs) THEN In(Head(items), obs)
    ELSE LET without(j) ==
                 is_contained_consuming(
                     PyList(SubSeq(obs.list, 1, j - 1) \o SubSeq(obs.list, j + 1, Len(obs.list))),
                     Tail(items))
             consume(hits) == IF hits = {} THEN [bool |-> FALSE] ELSE without(Min(hits))
         IN consume({j \in DOMAIN obs.list : PyEq(Head(items), obs.list[j])})

RECURSIVE is_contained(_, _)
\* rules.py line 88: all(item in observed for item in expected), as
\* [bool |-> b]; all() stops at the first item that is not contained
is_contained(obs, items) ==
    IF Len(items) = 0 THEN [bool |-> TRUE]
    ELSE LET others(first) ==
                 IF IsExc(first) THEN first
                 ELSE IF ~first.bool THEN [bool |-> FALSE]
                 ELSE is_contained(obs, Tail(items))
         IN others(In(Head(items), obs))

\* rules.py lines 88-97
Contains_run(self, obs, exp, validation_name) ==
    LET result(verdict, str_exp) ==
            ValidationResult(
                validation_name, verdict, self.negative,
                str(obs) \o <<" ", "d", "o", "e", "s", " ">>
                    \o (IF ~verdict THEN <<"n", "o", "t", " ">> ELSE <<>>)
                    \o <<"c", "o", "n", "t", "a", "i", "n", " ">> \o str_exp,
                PyStr(str_exp))
        negate(c) == IF IsExc(c) THEN c ELSE result(c.bool # self.negative, str(exp))
        contained(it) == IF IsExc(it) THEN it ELSE negate(is_contained(obs, it.items))
    IN contained(Iterate(exp))

\* rule.run(observed, expected, validation_name)
Rule_run(self, obs, exp, validation_name) ==
    IF self.rule = <<"E", "q", "u", "a", "l", "s">>
    THEN Equals_run(self, obs, exp, validation_name)
    ELSE Contains_run(self, obs, exp, validation_name)

----------------------------------------------------------------------------
(* The pipeline graph: objects of the sagemaker SDK, by the attributes the  *)
(* validations read                                                         *)

s_steps == <<"s", "t", "e", "p", "s">>

s_parameters == <<"p", "a", "r", "a", "m", "e", "t", "e", "r", "s">>

s_name == <<"n", "a", "m", "e">>

s_step_type == <<"s", "t", "e", "p", "_", "t", "y", "p", "e">>

s_value == <<"v", "a", "l", "u", "e">>

s_kms_key == <<"k", "m", "s", "_", "k", "e", "y">>

s_output_kms_key == <<"o", "u", "t", "p", "u", "t", "_", "k", "m", "s", "_", "k", "e", "y">>

s_processor == <<"p", "r", "o", "c", "e", "s", "s", "o", "r">>

s_estimator == <<"e", "s", "t", "i", "m", "a", "t", "o", "r">>

s_image_uri == <<"i", "m", "a", "g", "e", "_", "u", "r", "i">>

s_tags == <<"t", "a", "g", "s">>

s_lambda_func == <<"l", "a", "m", "b", "d", "a", "_", "f", "u", "n", "c">>

s_Processing == <<"P", "r", "o", "c", "e", "s", "s", "i", "n", "g">>

s_Training == <<"T", "r", "a", "i", "n", "i", "n", "g">>

s_Lambda == <<"L", "a", "m", "b", "d", "a">>

\* StepTypeEnum member
StepType(value) == PyObj(s_value :> PyStr(value))

\* ProcessingStep(name, processor=Processor(image_uri, tags), kms_key)
ProcessingStep(name, kms_key, image_uri, tags) ==
    PyObj(s_name :> PyStr(name) @@ s_step_type :> StepType(s_Processing)
          @@ s_kms_key :> PyStr(kms_key)
          @@ s_processor :> PyObj(s_image_uri :> PyStr(image_uri) @@ s_tags :> PyList(tags)))

\* TrainingStep(name, estimator=Estimator(image_uri, output_kms_key, tags))
TrainingStep(name, output_kms_key, image_uri, tags) ==
    PyObj(s_name :> PyStr(name) @@ s_step_type :> StepType(s_Training)
          @@ s_estimator :> PyObj(s_image_uri :> PyStr(image_uri)
                                  @@ s_output_kms_key :> PyStr(output_kms_key)
                                  @@ s_tags :> PyList(tags)))

\* LambdaStep(name, lambda_func)
LambdaStep(name, lambda_func) ==
    PyObj(s_name :> PyStr(name) @@ s_step_type :> StepType(s_Lambda)
          @@ s_lambda_func :> PyStr(lambda_func))

\* Pipeline(steps, parameters)
Pipeline(steps, parameters) ==
    PyObj(s_steps :> PyList(steps) @@ s_parameters :> PyList(parameters))

----------------------------------------------------------------------------
(* validations.py *)

\* Validation.__init__ (model.py lines 73-75): an object of class cls
Validation(cls, name, paths, rule_) ==
    [validation |-> cls, name |-> name, paths |-> paths, rule |-> rule_]

\* isinstance(v, Validation)
IsValidation(v) == "validation" \in DOMAIN v

\* f"name=={step_name}" if step_name else ""
step_filter(step_name) ==
    IF IsStr(step_name) /\ Len(step_name.str) > 0
    THEN s_name \o <<"=", "=">> \o step_name.str ELSE <<>>

\* f".steps[{step_filter} && step_type/value=={step_type}].{attrs}"
StepTypePath(filter, step_type_value, attrs) ==
    <<".">> \o s_steps \o <<"[">> \o filter \o <<" ", "&", "&", " ">>
        \o s_step_type \o <<"/">> \o s_value \o <<"=", "=">> \o step_type_value
        \o <<"]", ".">> \o Join(attrs, <<".">>)

n_StepKmsKeyIdAsExpected ==
    <<"S", "t", "e", "p", "K", "m", "s", "K", "e", "y", "I", "d",
      "A", "s", "E", "x", "p", "e", "c", "t", "e", "d">>

n_StepImagesExist == <<"S", "t", "e", "p", "I", "m", "a", "g", "e", "s", "E", "x", "i", "s", "t">>

n_StepTagsAsExpected ==
    <<"S", "t", "e", "p", "T", "a", "g", "s", "A", "s", "E", "x", "p", "e", "c", "t", "e", "d">>

\* StepKmsKeyIdAsExpected.__init__
StepKmsKeyIdAsExpected(kms_key_id_expected, rule_, step_name) ==
    Validation("StepKmsKeyIdAsExpected", n_StepKmsKeyIdAsExpected,
               << StepTypePath(step_filter(step_name), s_Processing, <<s_kms_key>>),
                  StepTypePath(step_filter(step_name), s_Training,
                               <<s_estimator, s_output_kms_key>>) >>,
               rule_)
    @@ [kms_key_id_expected |-> kms_key_id_expected]

\* StepKmsKeyIdAsExpected.run
StepKmsKeyIdAsExpected_run(self, pipeline) ==
    LET compare(kms_keys_observed) ==
            IF IsExc(kms_keys_observed) THEN kms_keys_observed
            ELSE Rule_run(self.rule, kms_keys_observed,
                          PyList(<<PyStr(self.kms_key_id_expected)>>), self.name)
    IN compare(get_attribute(pipeline, self.paths))

\* re.search("/(.*):", s): group(1) of the leftmost, longest match
SlashColonSearch(s) ==
    LET colons_after(i) == {j \in DOMAIN s : j > i /\ s[j] = ":"}
        match(starts) ==
            IF starts = {} THEN PyNone
            ELSE LET group(i) == [group |-> SubSeq(s, i + 1, Max(colons_after(i)) - 1)]
                 IN group(Min(starts))
    IN match({i \in DOMAIN s : s[i] = "/" /\ colons_after(i) # {}})

\* ContainerImage.__post_init__
ContainerImage(uri) ==
    IF ~IsStr(uri) THEN Raise("AttributeError")
    ELSE LET parts(m, by_dot, by_colon) ==
                 IF IsNone(m) THEN Raise("AttributeError")
                 ELSE IF Len(by_dot) < 4 THEN Raise("IndexError")
                 ELSE IF Len(by_colon) < 2 THEN Raise("IndexError")
                 ELSE [uri |-> uri.str,
                       account_id |-> by_dot[1],
                       repository |-> m.group,
                       region |-> by_dot[4],
                       tag |-> by_colon[2]]
         IN parts(SlashColonSearch(uri.str), Split(uri.str, <<".">>), Split(uri.str, <<":">>))

\* paginator.paginate(repositoryName, registryId, imageIds) of describe_images
\* raises ClientError: the image is not among the registered ones
describe_images_fails(ecr, image) ==
    <<image.account_id, image.repository, image.tag>> \notin ecr

RECURSIVE SortImages(_, _, _, _)
\* StepImagesExist.run lines 155-169: the lists exist and not_exist
SortImages(ecr, uris, exist, not_exist) ==
    IF Len(uris) = 0 THEN [exist |-> exist, not_exist |-> not_exist]
    ELSE LET sort(container_image) ==
                 IF IsExc(container_image) THEN container_image
                 ELSE IF describe_images_fails(ecr, container_image)
                      THEN SortImages(ecr, Tail(uris), exist, Append(not_exist, Head(uris)))
                      ELSE SortImages(ecr, Tail(uris), Append(exist, Head(uris)), not_exist)
         IN sort(ContainerImage(Head(uris)))

\* StepImagesExist.__init__ with the default client "ecr"
StepImagesExist(step_name) ==
    Validation("StepImagesExist", n_StepImagesExist,
               << StepTypePath(step_filter(step_name), s_Processing,
                               <<s_processor, s_image_uri>>),
                  StepTypePath(step_filter(step_name), s_Training,
                               <<s_estimator, s_image_uri>>) >>,
               PyNone)

\* StepImagesExist.run
StepImagesExist_run(self, pipeline, ecr) ==
    LET missing(subject) ==
            ValidationResult(
                self.name, FALSE, FALSE,
                <<"I", "m", "a", "g", "e", "s", " ">> \o subject
                    \o <<" ", "d", "o", " ", "n", "o", "t", " ", "e", "x", "i", "s", "t", ".">>,
                PyStr(subject))
        present(subject) ==
            ValidationResult(
                self.name, TRUE, FALSE,
                <<"I", "m", "a", "g", "e", "s", " ">> \o subject
                    \o <<" ", "e", "x", "i", "s", "t", ".">>,
                PyStr(subject))
        result(sorted) ==
            IF IsExc(sorted) THEN sorted
            ELSE IF Len(sorted.not_exist) > 0
            THEN missing(str(PyList(sorted.not_exist)))
            ELSE present(str(PyList(sorted.exist)))
        check(uris) ==
            IF IsExc(uris) THEN uris ELSE result(SortImages(ecr, uris.list, <<>>, <<>>))
    IN check(get_attribute(pipeline, self.paths))

\* StepTagsAsExpected.__init__
StepTagsAsExpected(tags_expected, rule_, step_name) ==
    Validation("StepTagsAsExpected", n_StepTagsAsExpected,
               << StepTypePath(step_filter(step_name), s_Processing, <<s_processor, s_tags>>),
                  StepTypePath(step_filter(step_name), s_Training, <<s_estimator, s_tags>>) >>,
               rule_)
    @@ [tags_expected |-> tags_expected]

\* StepTagsAsExpected.run: the rule is given tags_observed[0]
StepTagsAsExpected_run(self, pipeline) ==
    LET compare(tags_observed) ==
            IF IsExc(tags_observed) THEN tags_observed
            ELSE IF Len(tags_observed.list) = 0 THEN Raise("IndexError")
            ELSE Rule_run(self.rule, tags_observed.list[1], self.tags_expected, self.name)
    IN compare(get_attribute(pipeline, self.paths))

\* a subclass of Validation written by the caller: its run returns the value
\* the object was built with (a ValidationResult or None)
UserValidation(name, paths, returns) ==
    Validation("UserValidation", name, paths, PyNone) @@ [returns |-> returns]

\* validation.run(sagemaker_pipeline): a ValidationResult, None or an exception
Validation_run(self, pipeline, ecr) ==
    IF self.validation = "StepKmsKeyIdAsExpected" THEN StepKmsKeyIdAsExpected_run(self, pipeline)
    ELSE IF self.validation = "StepImagesExist" THEN StepImagesExist_run(self, pipeline, ecr)
    ELSE IF self.validation = "StepTagsAsExpected" THEN StepTagsAsExpected_run(self, pipeline)
    ELSE self.returns

s_default_value == <<"d", "e", "f", "a", "u", "l", "t", "_", "v", "a", "l", "u", "e">>

s_role == <<"r", "o", "l", "e">>

s_inputs == <<"i", "n", "p", "u", "t", "s">>

n_PipelineParametersAsExpected ==
    <<"P", "i", "p", "e", "l", "i", "n", "e", "P", "a", "r", "a", "m", "e", "t", "e", "r", "s",
      "A", "s", "E", "x", "p", "e", "c", "t", "e", "d">>

n_StepLambdaFunctionExists ==
    <<"S", "t", "e", "p", "L", "a", "m", "b", "d", "a", "F", "u", "n", "c", "t", "i", "o", "n",
      "E", "x", "i", "s", "t", "s">>

n_StepRoleExists == <<"S", "t", "e", "p", "R", "o", "l", "e", "E", "x", "i", "s", "t", "s">>

n_StepInputsAsExpected ==
    <<"S", "t", "e", "p", "I", "n", "p", "u", "t", "s", "A", "s", "E", "x", "p", "e", "c", "t",
      "e", "d">>

\* ParameterString(name, default_value): Parameters compare by their fields
ParameterString(name, default_value) ==
    PyObj(s_name :> PyStr(name) @@ s_default_value :> default_value)

\* PipelineParametersAsExpected.__init__
PipelineParametersAsExpected(parameters_expected, rule_, ignore_default_value) ==
    IF ~Truthy(parameters_expected) THEN Raise("ValueError")
    ELSE Validation("PipelineParametersAsExpected", n_PipelineParametersAsExpected,
                    << <<".">> \o s_parameters \o <<"[", "]">> >>, rule_)
         @@ [parameters_expected |-> parameters_expected,
             ignore_default_value |-> ignore_default_value]

\* lines 44-46: parameters_observed[ix].default_value = None for every ix
without_default_values(parameters) ==
    [i \in DOMAIN parameters |-> PyObj((s_default_value :> PyNone) @@ parameters[i].obj)]

\* PipelineParametersAsExpected.run
PipelineParametersAsExpected_run(self, pipeline) ==
    LET compare(parameters_observed) ==
            IF IsExc(parameters_observed) THEN parameters_observed
            ELSE IF self.ignore_default_value
                    /\ \E i \in DOMAIN parameters_observed.list : ~IsObj(parameters_observed.list[i])
            THEN Raise("AttributeError")
            ELSE Rule_run(self.rule,
                          IF self.ignore_default_value
                          THEN PyList(without_default_values(parameters_observed.list))
                          ELSE parameters_observed,
                          self.parameters_expected, self.name)
    IN compare(get_attribute(pipeline, self.paths))

\* the lookup of name raises ClientError: client holds the names the service knows
lookup_fails_never(client, name) == FALSE

lookup_fails(client, name) == name \notin client

RECURSIVE SortLookups(_, _, _, _)
\* the loops of StepLambdaFunctionExists.run (lines 335-342) and
\* StepRoleNameExists.run (lines 469-476): the lists exist and not_exist
SortLookups(client, names, exist, not_exist) ==
    IF Len(names) = 0 THEN [exist |-> exist, not_exist |-> not_exist]
    ELSE IF lookup_fails(client, Head(names))
    THEN SortLookups(client, Tail(names), exist, Append(not_exist, Head(names)))
    ELSE SortLookups(client, Tail(names), Append(exist, Head(names)), not_exist)

\* StepLambdaFunctionExists.__init__ with the default client "lambda"
StepLambdaFunctionExists ==
    Validation("StepLambdaFunctionExists", n_StepLambdaFunctionExists,
               << <<".">> \o s_steps \o <<"[">> \o s_step_type \o <<"/">> \o s_value
                    \o <<"=", "=">> \o s_Lambda \o <<"]", ".">> \o s_lambda_func >>,
               PyNone)

\* StepLambdaFunctionExists.run
StepLambdaFunctionExists_run(self, pipeline, lambda_client) ==
    LET result(observed_, sorted) ==
            IF Len(sorted.not_exist) > 0
            THEN ValidationResult(
                     self.name, FALSE, FALSE,
                     <<"L", "a", "m", "b", "d", "a", " ", "F", "u", "n", "c", "t", "i", "o", "n", " ">>
                         \o str(PyList(sorted.not_exist))
                         \o <<" ", "d", "o", "e", "s", " ", "n", "o", "t", " ",
                              "e", "x", "i", "s", "t", ".">>,
                     PyStr(str(observed_)))
            ELSE ValidationResult(
                     self.name, TRUE, FALSE,
                     <<"L", "a", "m", "b", "d", "a", " ", "F", "u", "n", "c", "t", "i", "o", "n", " ">>
                         \o str(PyList(sorted.exist))
                         \o <<" ", "e", "x", "i", "s", "t", "s", ".">>,
                     PyStr(str(observed_)))
        check(lambda_func_observed) ==
            IF IsExc(lambda_func_observed) THEN lambda_func_observed
            ELSE result(lambda_func_observed,
                        SortLookups(lambda_client, lambda_func_observed.list, <<>>, <<>>))
    IN check(get_attribute(pipeline, self.paths))

\* StepRoleNameExists.__init__ with the default client "iam"
StepRoleNameExists(step_name) ==
    Validation("StepRoleNameExists", n_StepRoleExists,
               << StepTypePath(step_filter(step_name), s_Processing, <<s_processor, s_role>>),
                  StepTypePath(step_filter(step_name), s_Training, <<s_estimator, s_role>>) >>,
               PyNone)

\* role_arn.split("/")[-1]
role_name(role_arn) ==
    LET last(parts) == PyStr(parts[Len(parts)])
    IN last(Split(role_arn.str, <<"/">>))

\* StepRoleNameExists.run
StepRoleNameExists_run(self, pipeline, iam_client) ==
    LET result(role_name_observed, sorted) ==
            IF Len(sorted.not_exist) > 0
            THEN ValidationResult(
                     self.name, FALSE, FALSE,
                     <<"R", "o", "l", "e", " ">> \o str(PyList(sorted.not_exist))
                         \o <<" ", "d", "o", "e", "s", " ", "n", "o", "t", " ",
                              "e", "x", "i", "s", "t", ".">>,
                     PyStr(str(PyList(role_name_observed))))
            ELSE ValidationResult(
                     self.name, TRUE, FALSE,
                     <<"R", "o", "l", "e", " ">> \o str(PyList(sorted.exist))
                         \o <<" ", "e", "x", "i", "s", "t", "s", ".">>,
                     PyStr(str(PyList(role_name_observed))))
        lookups(role_name_observed) ==
            result(role_name_observed, SortLookups(iam_client, role_name_observed, <<>>, <<>>))
        check(role_arns_observed) ==
            IF IsExc(role_arns_observed) THEN role_arns_observed
            ELSE IF \E i \in DOMAIN role_arns_observed.list : ~IsStr(role_arns_observed.list[i])
            THEN Raise("AttributeError")
            ELSE lookups([i \in DOMAIN role_arns_observed.list |->
                             role_name(role_arns_observed.list[i])])
    IN check(get_attribute(pipeline, self.paths))

\* f"step_type/value=={step_type}" if step_type else ""
step_type_filter(step_type) ==
    IF Truthy(step_type)
    THEN s_step_type \o <<"/">> \o s_value \o <<"=", "=">> \o str(step_type) ELSE <<>>

\* a constructor in which a step_name excuses nothing
StepInputsAsExpected_checking_step_type_always(inputs_expected, rule_, step_type, step_name) ==
    IF Truthy(step_type) /\ Truthy(step_name) THEN Raise("ValueError")
    ELSE IF ~Truthy(step_type) /\ ~Truthy(step_name) THEN Raise("ValueError")
    ELSE IF step_type \notin {PyStr(s_Training), PyStr(s_Processing)} THEN Raise("ValueError")
    ELSE Validation("StepInputsAsExpected", n_StepInputsAsExpected,
                    << <<".">> \o s_steps \o <<"[">> \o step_filter(step_name)
                         \o <<" ", "&", "&", " ">> \o step_type_filter(step_type)
                         \o <<"]", ".">> \o s_inputs >>,
                    rule_)
         @@ [inputs_expected |-> inputs_expected,
             step_filter |-> step_filter(step_name),
             step_type_filter |-> step_type_filter(step_type)]

\* StepInputsAsExpected.__init__
StepInputsAsExpected(inputs_expected, rule_, step_type, step_name) ==
    IF Truthy(step_type) /\ Truthy(step_name) THEN Raise("ValueError")
    ELSE IF ~Truthy(step_type) /\ ~Truthy(step_name) THEN Raise("ValueError")
    ELSE IF step_type \notin {PyStr(s_Training), PyStr(s_Processing)} /\ ~Truthy(step_name)
    THEN Raise("ValueError")
    ELSE Validation("StepInputsAsExpected", n_StepInputsAsExpected,
                    << <<".">> \o s_steps \o <<"[">> \o step_filter(step_name)
                         \o <<" ", "&", "&", " ">> \o step_type_filter(step_type)
                         \o <<"]", ".">> \o s_inputs >>,
                    rule_)
         @@ [inputs_expected |-> inputs_expected,
             step_filter |-> step_filter(step_name),
             step_type_filter |-> step_type_filter(step_type)]

\* a check that accepts the name of any service a validation of this module uses
unsupported_client_of_no_validation(boto3_client, supported) ==
    IsStr(boto3_client)
    /\ boto3_client.str \notin {<<"e", "c", "r">>, <<"l", "a", "m", "b", "d", "a">>, <<"i", "a", "m">>}

\* isinstance(boto3_client, str) and boto3_client != "<supported>"
unsupported_client(boto3_client, supported) ==
    IsStr(boto3_client) /\ boto3_client.str # supported

\* lines 134-137: self.client is set when boto3_client is truthy, to the client
\* handed in or to boto3.client(boto3_client)
with_client(self, boto3_client, supported) ==
    IF Truthy(boto3_client) THEN self @@ [client |-> supported] ELSE self

\* StepImagesExist.__init__(boto3_client, step_name)
StepImagesExist_init(boto3_client, step_name) ==
    IF unsupported_client(boto3_client, <<"e", "c", "r">>) THEN Raise("ValueError")
    ELSE with_client(StepImagesExist(step_name), boto3_client, <<"e", "c", "r">>)

\* StepLambdaFunctionExists.__init__(boto3_client)
StepLambdaFunctionExists_init(boto3_client) ==
    IF unsupported_client(boto3_client, <<"l", "a", "m", "b", "d", "a">>)
    THEN Raise("ValueError")
    ELSE with_client(StepLambdaFunctionExists, boto3_client, <<"l", "a", "m", "b", "d", "a">>)

\* StepRoleNameExists.__init__(step_name, boto3_client)
StepRoleNameExists_init(step_name, boto3_client) ==
    IF unsupported_client(boto3_client, <<"i", "a", "m">>) THEN Raise("ValueError")
    ELSE with_client(StepRoleNameExists(step_name), boto3_client, <<"i", "a", "m">>)

s_outputs == <<"o", "u", "t", "p", "u", "t", "s">>

s_input_name == <<"i", "n", "p", "u", "t", "_", "n", "a", "m", "e">>

s_output_name == <<"o", "u", "t", "p", "u", "t", "_", "n", "a", "m", "e">>

s_source == <<"s", "o", "u", "r", "c", "e">>

s_destination == <<"d", "e", "s", "t", "i", "n", "a", "t", "i", "o", "n">>

n_StepOutputsMatchInputsAsExpected ==
    <<"S", "t", "e", "p", "O", "u", "t", "p", "u", "t", "s", "M", "a", "t", "c", "h",
      "I", "n", "p", "u", "t", "s", "A", "s", "E", "x", "p", "e", "c", "t", "e", "d">>

\* ProcessingInput(input_name, source)
ProcessingInput(input_name, source) ==
    PyObj(s_input_name :> PyStr(input_name) @@ s_source :> PyStr(source))

\* ProcessingOutput(output_name, destination)
ProcessingOutput(output_name, destination) ==
    PyObj(s_output_name :> PyStr(output_name) @@ s_destination :> PyStr(destination))

\* {"input": {"step_name", "input_name"}, "output": {"step_name", "output_name"}}
IoPair(input_step_name, input_name, output_step_name, output_name) ==
    [input |-> [step_name |-> input_step_name, input_name |-> input_name],
     output |-> [step_name |-> output_step_name, output_name |-> output_name]]

\* StepOutputsMatchInputsAsExpected.__init__: no paths, rule=Equals()
StepOutputsMatchInputsAsExpected(inputs_outputs_expected) ==
    Validation("StepOutputsMatchInputsAsExpected", n_StepOutputsMatchInputsAsExpected,
               <<>>, Equals(FALSE))
    @@ [inputs_outputs_expected |-> inputs_outputs_expected]

\* get_step_by_name: the first step of that name, ValueError without one
get_step_by_name(pipeline, step_name) ==
    LET first(steps, stops) ==
            IF stops = {} THEN Raise("ValueError")
            ELSE IF ~hasattr(steps[Min(stops)], s_name) THEN Raise("AttributeError")
            ELSE steps[Min(stops)]
        search(steps) ==
            first(steps, {i \in DOMAIN steps :
                             ~hasattr(steps[i], s_name) \/ steps[i].obj[s_name] = PyStr(step_name)})
        iterate(it) == IF IsExc(it) THEN it ELSE search(it.items)
        steps_attr(steps) == IF IsExc(steps) THEN steps ELSE iterate(Iterate(steps))
    IN steps_attr(getattr(pipeline, s_steps))

\* get_input_output_by_name: the first input (output) of that name; the loop
\* ends without a return, that is with None, when there is none
get_input_output_by_name(step, name, kind) ==
    LET first(items, s_kind_name, stops) ==
            IF stops = {} THEN PyNone
            ELSE IF ~hasattr(items[Min(stops)], s_kind_name) THEN Raise("AttributeError")
            ELSE items[Min(stops)]
        search(items, s_kind_name) ==
            first(items, s_kind_name,
                  {i \in DOMAIN items :
                      ~hasattr(items[i], s_kind_name) \/ items[i].obj[s_kind_name] = PyStr(name)})
        iterate(it, s_kind_name) == IF IsExc(it) THEN it ELSE search(it.items, s_kind_name)
        listed(value, s_kind_name) ==
            IF IsExc(value) THEN value ELSE iterate(Iterate(value), s_kind_name)
    IN IF kind = "input" THEN listed(getattr(step, s_inputs), s_input_name)
       ELSE IF kind = "output" THEN listed(getattr(step, s_outputs), s_output_name)
       ELSE Raise("ValueError")

\* lines 789-807: the body of the loop for one pair, as the tuple
\* (input.source, output.destination)
source_and_destination(pipeline, pair) ==
    LET tuple(source, destination) ==
            IF IsExc(source) THEN source
            ELSE IF IsExc(destination) THEN destination
            ELSE [source |-> source, destination |-> destination]
        named(input, output) ==
            IF IsExc(input) THEN input
            ELSE IF IsExc(output) THEN output
            ELSE tuple(getattr(input, s_source), getattr(output, s_destination))
        steps(input_step, output_step) ==
            IF IsExc(input_step) THEN input_step
            ELSE IF IsExc(output_step) THEN output_step
            ELSE named(get_input_output_by_name(input_step, pair.input.input_name, "input"),
                       get_input_output_by_name(output_step, pair.output.output_name, "output"))
    IN steps(get_step_by_name(pipeline, pair.input.step_name),
             get_step_by_name(pipeline, pair.output.step_name))

RECURSIVE MatchResults(_, _)
\* lines 787-807: the list `results`
MatchResults(pipeline, pairs) ==
    IF Len(pairs) = 0 THEN [results |-> <<>>]
    ELSE LET append(one, rest) ==
                 IF IsExc(one) THEN one
                 ELSE IF IsExc(rest) THEN rest
                 ELSE [results |-> <<one>> \o rest.results]
         IN append(source_and_destination(pipeline, Head(pairs)),
                   MatchResults(pipeline, Tail(pairs)))

\* StepOutputsMatchInputsAsExpected.run
StepOutputsMatchInputsAsExpected_run(self, pipeline) ==
    LET compare(collected) ==
            IF IsExc(collected) THEN collected
            ELSE Rule_run(self.rule,
                          PyList([i \in DOMAIN collected.results |-> collected.results[i].source]),
                          PyList([i \in DOMAIN collected.results |-> collected.results[i].destination]),
                          self.name)
    IN compare(MatchResults(pipeline, self.inputs_outputs_expected))

s_config == <<"c", "o", "n", "f", "i", "g">>

\* TrainingInput(s3_data): its __init__ keeps one attribute, config
TrainingInput(s3_data) == PyObj(s_config :> PyStr(s3_data))

RECURSIVE ObjItems(_, _)
\* the items of x.__dict__ over the attribute names `names`
ObjItems(x, names) ==
    IF names = {} THEN <<>>
    ELSE LET item(name) == << <<PyStr(name), x.obj[name]>> >> \o ObjItems(x, names \ {name})
         IN item(CHOOSE name \in names : TRUE)

\* x.__dict__
vars_dict(x) == IF IsObj(x) THEN PyDict(ObjItems(x, DOMAIN x.obj)) ELSE Raise("AttributeError")

RECURSIVE DictsOf(_)
\* [x.__dict__ for x in items]
DictsOf(items) ==
    IF Len(items) = 0 THEN [formatted |-> <<>>]
    ELSE LET prepend(d, rest) ==
                 IF IsExc(d) THEN d
                 ELSE IF IsExc(rest) THEN rest
                 ELSE [formatted |-> <<d>> \o rest.formatted]
         IN prepend(vars_dict(Head(items)), DictsOf(Tail(items)))

RECURSIVE format_processing_inputs(_)
\* line 644: [x.__dict__ for y in inputs_observed for x in y]
format_processing_inputs(ys) ==
    IF Len(ys) = 0 THEN [formatted |-> <<>>]
    ELSE LET join(head, rest) ==
                 IF IsExc(head) THEN head
                 ELSE IF IsExc(rest) THEN rest
                 ELSE [formatted |-> head.formatted \o rest.formatted]
             each(it) == IF IsExc(it) THEN it ELSE DictsOf(it.items)
         IN join(each(Iterate(Head(ys))), format_processing_inputs(Tail(ys)))

RECURSIVE format_training_items(_)
\* lines 612-620: one {key: value} per item of a dict, a TrainingInput or
\* FileSystemInput replaced by its __dict__
format_training_items(kvs) ==
    IF Len(kvs) = 0 THEN <<>>
    ELSE <<PyDict(<< <<Head(kvs)[1],
                       IF IsObj(Head(kvs)[2]) THEN vars_dict(Head(kvs)[2]) ELSE Head(kvs)[2]>> >>)>>
         \o format_training_items(Tail(kvs))

RECURSIVE format_training_inputs(_)
\* StepInputsAsExpected.format_training_inputs
format_training_inputs(inputs) ==
    IF Len(inputs) = 0 THEN [formatted |-> <<>>]
    ELSE LET join(rest) ==
                 IF IsExc(rest) THEN rest
                 ELSE [formatted |-> format_training_items(Head(inputs).dict) \o rest.formatted]
         IN IF ~IsDict(Head(inputs)) THEN Raise("AttributeError")
            ELSE join(format_training_inputs(Tail(inputs)))

\* lines 634-638: the value of self.step_type_filter after the first statement
\* of run, or the exception that statement raises
step_type_filter_in_run(self, pipeline) ==
    IF Len(self.step_filter) = 0 THEN PyStr(self.step_type_filter)
    ELSE LET first(found) ==
                 IF IsExc(found) THEN found
                 ELSE IF Len(found.list) = 0 THEN Raise("IndexError")
                 ELSE PyStr(s_step_type \o <<"/">> \o s_value \o <<"=", "=">>
                            \o str(found.list[1]))
         IN first(get_attribute(pipeline,
                                << <<".">> \o s_steps \o <<"[">> \o self.step_filter
                                     \o <<"]", ".">> \o s_step_type \o <<".">> \o s_value >>))

\* StepInputsAsExpected.run
StepInputsAsExpected_run(self, pipeline) ==
    LET compare(obs, exp) ==
            IF IsExc(obs) THEN obs
            ELSE IF IsExc(exp) THEN exp
            ELSE Rule_run(self.rule, PyList(obs.formatted), PyList(exp.formatted), self.name)
        expected_dicts(it) == IF IsExc(it) THEN it ELSE DictsOf(it.items)
        expected_training(it) == IF IsExc(it) THEN it ELSE format_training_inputs(it.items)
        branch(filter, inputs_observed) ==
            IF IsExc(inputs_observed) THEN inputs_observed
            ELSE IF filter.str = <<"s","t","e","p","_","t","y","p","e","/","v","a","l","u","e","=","=","P","r","o","c","e","s","s","i","n","g">>
            THEN compare(format_processing_inputs(inputs_observed.list),
                         expected_dicts(Iterate(self.inputs_expected)))
            ELSE IF filter.str = <<"s","t","e","p","_","t","y","p","e","/","v","a","l","u","e","=","=","T","r","a","i","n","i","n","g">>
            THEN compare(format_training_inputs(inputs_observed.list),
                         expected_training(Iterate(self.inputs_expected)))
            ELSE Raise("UnboundLocalError")
        typed(filter) ==
            IF IsExc(filter) THEN filter ELSE branch(filter, get_attribute(pipeline, self.paths))
    IN typed(step_type_filter_in_run(self, pipeline))

\* the validation object after validation.run(sagemaker_pipeline): line 638
\* assigns to self.step_type_filter, no other run assigns to a field of self
validation_after_run(self, pipeline) ==
    IF self.validation = "StepInputsAsExpected"
    THEN LET assigned(filter) ==
                 IF IsExc(filter) THEN self ELSE [self EXCEPT !.step_type_filter = filter.str]
         IN assigned(step_type_filter_in_run(self, pipeline))
    ELSE self

\* the clients a validation's run calls: boto3 clients of ecr, lambda and iam
Clients(ecr, lambda_client, iam_client) ==
    [ecr |-> ecr, lambda |-> lambda_client, iam |-> iam_client]

\* validation.run(sagemaker_pipeline) of every class of validations.py modelled
run(self, pipeline, clients) ==
    IF self.validation = "PipelineParametersAsExpected"
    THEN PipelineParametersAsExpected_run(self, pipeline)
    ELSE IF self.validation = "StepLambdaFunctionExists"
    THEN StepLambdaFunctionExists_run(self, pipeline, clients.lambda)
    ELSE IF self.validation = "StepRoleNameExists"
    THEN StepRoleNameExists_run(self, pipeline, clients.iam)
    ELSE IF self.validation = "StepOutputsMatchInputsAsExpected"
    THEN StepOutputsMatchInputsAsExpected_run(self, pipeline)
    ELSE IF self.validation = "StepInputsAsExpected"
    THEN StepInputsAsExpected_run(self, pipeline)
    ELSE Validation_run(self, pipeline, clients.ecr)

\* a run that works on Parameter objects of its own
pipeline_after_run_on_copies(self, pipeline) == pipeline

\* the caller's pipeline after validation.run(sagemaker_pipeline): the path
\* ".parameters[]" returns the list pipeline.parameters unfiltered, the
\* flattening puts its Parameter objects themselves into parameters_observed,
\* and lines 44-46 assign to their default_value; copy() of line 126 is shallow
pipeline_after_run(self, pipeline) ==
    IF /\ self.validation = "PipelineParametersAsExpected"
       /\ self.ignore_default_value
       /\ ~IsExc(get_attribute(pipeline, self.paths))
       /\ \A i \in DOMAIN pipeline.obj[s_parameters].list : IsObj(pipeline.obj[s_parameters].list[i])
    THEN Pipeline(pipeline.obj[s_steps].list,
                  without_default_values(pipeline.obj[s_parameters].list))
    ELSE pipeline

----------------------------------------------------------------------------
(* model.py: Configuration, Report, ValidationFailedError *)

\* a check of the value itself that leaves its elements unexamined
validate_input_validations_shallow(vals) ==
    IF ~Truthy(vals) THEN Raise("ValueError")
    ELSE IF ~IsList(vals) THEN Raise("TypeError")
    ELSE PyNone

\* Configuration._validate_input_validations: the exception raised, or PyNone
validate_input_validations(vals) ==
    IF ~Truthy(vals) THEN Raise("ValueError")
    ELSE IF ~IsList(vals) THEN Raise("TypeError")
    ELSE IF ~(\A i \in DOMAIN vals.list : IsValidation(vals.list[i])) THEN Raise("TypeError")
    ELSE PyNone

\* str(validation.paths)
paths_str(validation) == str(PyList([i \in DOMAIN validation.paths |-> PyStr(validation.paths[i])]))

\* the text of the warning and of the placeholder (model.py lines 276-277)
no_results_message(validation) ==
    <<"V", "a", "l", "i", "d", "a", "t", "i", "o", "n", " ">> \o validation.name
    \o <<" ", "d", "i", "d", " ", "n", "o", "t", " ", "r", "e", "t", "u", "r", "n", " ",
         "a", "n", "y", " ", "r", "e", "s", "u", "l", "t", "s", ".", " ",
         "P", "l", "e", "a", "s", "e", " ", "c", "h", "e", "c", "k", " ", "i", "f", " ",
         "t", "h", "e", " ", "p", "a", "t", "h", "s", " ">>
    \o paths_str(validation)
    \o <<" ", "a", "r", "e", " ", "c", "o", "r", "r", "e", "c", "t", ".">>

\* a placeholder that counts as a success
handle_empty_results_as_success(result, validation) ==
    IF ~Truthy(result)
    THEN ValidationResult(
             validation.name, TRUE, FALSE, no_results_message(validation),
             PyList([i \in DOMAIN validation.paths |-> PyStr(validation.paths[i])]))
    ELSE result

\* Configuration._handle_empty_results
handle_empty_results(result, validation) ==
    IF ~Truthy(result)
    THEN ValidationResult(
             validation.name, FALSE, FALSE, no_results_message(validation),
             PyList([i \in DOMAIN validation.paths |-> PyStr(validation.paths[i])]))
    ELSE result

\* a failure handed back as a report of one result where run raises
ValidationFailedError_as_report(validation_result) == [results |-> <<validation_result>>]

\* ValidationFailedError.__init__ (self.message, a text computed from
\* validation_result, is not kept)
ValidationFailedError(validation_result) ==
    [exc |-> "ValidationFailedError", validation_result |-> validation_result]

\* Report.to_df: one row per result, the five columns in declaration order
to_df(report_results) ==
    [df |-> [i \in DOMAIN report_results |->
                [validation_name |-> report_results[i].validation_name,
                 success |-> report_results[i].success,
                 negative |-> report_results[i].negative,
                 message |-> report_results[i].message,
                 subject |-> report_results[i].subject]]]

\* Report.__init__
Report(report_results) == [results |-> report_results]

\* Configuration._make_report
make_report(report_results, as_df) ==
    IF as_df THEN to_df(report_results) ELSE Report(report_results)

\* a run that goes on after every result
stops_run_never(result, ff, i, n) == FALSE

\* a run that stops at a failing result whatever fail_fast is
stops_run_ignoring_fail_fast(result, ff, i, n) == ~result.success /\ ~(i = n - 1)

\* a run that stops at a failing result at the last position as well
stops_run_at_last_too(result, ff, i, n) == ~result.success /\ ff

\* line 299: the condition under which run raises ValidationFailedError
stops_run(result, ff, i, n) == ~result.success /\ ff /\ ~(i = n - 1)

----------------------------------------------------------------------------
(* cli/validate.py: main() *)

\* df_report["success"].all()
success_all(report) == \A i \in DOMAIN report.df : report.df[i].success

\* an exit code decided by the last row alone
main_exit_code_of_last_row(report) ==
    IF ~report.df[Len(report.df)].success THEN 1 ELSE 0

\* lines 56-60: the code of the SystemExit
main_exit_code(report) == IF ~success_all(report) THEN 1 ELSE 0

----------------------------------------------------------------------------
(* The parts of the state a scenario does not use *)

\* before construction: no Configuration, no run
IdleConfig ==
    /\ validations = PyNone
    /\ self_validations = PyNone
    /\ fail_fast = FALSE
    /\ return_df = FALSE
    /\ ix = 0
    /\ results = <<>>
    /\ executed = <<>>
    /\ returned_by_run = <<>>
    /\ outcome = PyNone
    /\ exit_code = -1

\* no rule under test
IdleRule ==
    /\ rule = PyNone
    /\ observed = PyNone
    /\ expected = PyNone
    /\ rule_result = PyNone

\* no path under test
IdlePath ==
    /\ query = <<>>
    /\ filtered_steps = PyNone
    /\ resolved = PyNone
    /\ resolved_again = PyNone

\* no validation run or constructed on its own
IdleRun ==
    /\ current_validation = PyNone
    /\ current_result = PyNone
    /\ lambda_functions = {}
    /\ iam_roles = {}
    /\ arguments = PyNone

----------------------------------------------------------------------------
(* The rule scenario: a rule applied once to operands drawn from bounded sets *)

SeqsUpTo(S, n) == UNION {[1..k -> S] : k \in 0..n}

Foo == PyStr(<<"f", "o", "o">>)

Bar == PyStr(<<"b", "a", "r">>)

Baz == PyStr(<<"b", "a", "z">>)

\* the dicts of test_equals, and one that differs from the first in a value only
Dicts ==
    { PyDict(<< <<Foo, Bar>> >>), PyDict(<< <<Foo, Baz>> >>), PyDict(<< <<Bar, Bar>> >>),
      PyDict(<< <<Bar, Foo>>, <<Foo, Bar>> >>), PyDict(<< <<Foo, Bar>>, <<Bar, Foo>> >>) }

Scalars == {PyStr(<<"a">>), PyStr(<<"b">>), PyInt(1)}

\* the items of the operand lists: hashable scalars and (unhashable) dicts
Items == Scalars \cup {PyDict(<< <<Foo, Bar>> >>), PyDict(<< <<Foo, Baz>> >>)}

Operands == {PyList(xs) : xs \in SeqsUpTo(Items, MaxOperandLen)} \cup Dicts

Rules == {Equals(FALSE), Equals(TRUE), Contains(FALSE), Contains(TRUE)}

some_validation == <<"s", "o", "m", "e">>

InitRule ==
    /\ pc = "rule_ready"
    /\ rule \in Rules
    /\ observed \in Operands
    /\ expected \in Operands
    /\ rule_result = PyNone
    /\ sagemaker_pipeline = PyNone
    /\ pipeline_before = PyNone
    /\ registry = {}
    /\ caller = "api"
    /\ IdleConfig
    /\ IdlePath
    /\ IdleRun

\* vr = rule.run(observed=observed, expected=expected, validation_name=...)
RunRule ==
    /\ pc = "rule_ready"
    /\ rule_result' = Rule_run(rule, observed, expected, some_validation)
    /\ pc' = "rule_done"
    /\ UNCHANGED <<rule, observed, expected>>
    /\ UNCHANGED outside_rule

NextRule == RunRule

RuleSpec == InitRule /\ [][NextRule]_vars

----------------------------------------------------------------------------
(* The Configuration scenario: a caller, or main(), builds a Configuration   *)
(* and runs it once                                                          *)

IMAGE_1_URI ==
    <<"1", ".", "d", "k", "r", ".", "e", "c", "r", ".", "e", "u", ".", "a", "w", "s",
      "/", "r", "1", ":", "v", "1">>

IMAGE_2_URI ==
    <<"1", ".", "d", "k", "r", ".", "e", "c", "r", ".", "e", "u", ".", "a", "w", "s",
      "/", "r", "2", ":", "v", "1">>

\* tests/utils.py create_image: the registry entry of an image
Registered(uri) ==
    LET entry(image) == <<image.account_id, image.repository, image.tag>>
    IN entry(ContainerImage(PyStr(uri)))

Registries == { {}, {Registered(IMAGE_1_URI)} }

KeyA == <<"a", "l", "i", "a", "s", "/", "k", "1">>

KeyB == <<"a", "l", "i", "a", "s", "/", "k", "2">>

Tag(key, value) ==
    PyDict(<< <<PyStr(<<"K", "e", "y">>), PyStr(key)>>,
              <<PyStr(<<"V", "a", "l", "u", "e">>), PyStr(value)>> >>)

TagA == Tag(<<"t", "1">>, <<"x">>)

TagB == Tag(<<"t", "2">>, <<"y">>)

Pipelines ==
    { Pipeline(<< LambdaStep(<<"c">>, <<"f">>) >>, <<>>),
      Pipeline(<< ProcessingStep(<<"a">>, KeyA, IMAGE_1_URI, <<TagA, TagB>>),
                  TrainingStep(<<"b">>, KeyA, IMAGE_1_URI, <<TagA>>) >>, <<>>),
      Pipeline(<< ProcessingStep(<<"a">>, KeyA, IMAGE_1_URI, <<TagB>>),
                  TrainingStep(<<"b">>, KeyB, IMAGE_2_URI, <<TagA>>) >>, <<>>) }

\* the validations a caller may put in the list
ValidationPool ==
    { StepKmsKeyIdAsExpected(KeyA, Equals(FALSE), PyNone),

      StepImagesExist(PyNone),
      StepTagsAsExpected(PyList(<<TagA>>), Contains(FALSE), PyNone),
      UserValidation(<<"U">>, << <<".">> \o s_steps \o <<"[", "]">> >>, PyNone) }

not_validation == PyStr(<<"n", "o", "t", "_", "v">>)

\* what test_configuration_validate_input_validations hands in, and other
\* values that are no list of validations
BadValidations ==
    { PyList(<<>>), PyNone, PyStr(<<>>), PyStr(<<"n", "o", "t", "_", "l">>),
      PyList(<<not_validation>>),
      PyList(<<StepImagesExist(PyNone), not_validation>>),
      [tuple |-> <<>>],
      [tuple |-> <<StepImagesExist(PyNone)>>] }

ValidationLists ==
    {PyList(vs) : vs \in SeqsUpTo(ValidationPool, MaxValidations) \ {<<>>}}

Init ==
    /\ pc = "start"
    /\ caller \in {"api", "cli"}
    /\ sagemaker_pipeline \in Pipelines
    /\ pipeline_before = sagemaker_pipeline
    /\ registry \in Registries
    /\ validations \in ValidationLists \cup BadValidations
    /\ self_validations = PyNone
    /\ fail_fast = FALSE
    /\ return_df = FALSE
    /\ ix = 0
    /\ results = <<>>
    /\ executed = <<>>
    /\ returned_by_run = <<>>
    /\ outcome = PyNone
    /\ exit_code = -1
    /\ IdleRule
    /\ IdlePath
    /\ IdleRun

\* Configuration(validations, sagemaker_pipeline): model.py lines 212-214
Construct ==
    /\ pc = "start"
    /\ LET construct(error) ==
               IF IsExc(error)
               THEN /\ pc' = "construction_failed"
                    /\ outcome' = error
                    /\ UNCHANGED self_validations
               ELSE /\ pc' = "constructed"
                    /\ self_validations' = validations
                    /\ UNCHANGED outcome
       IN construct(validate_input_validations(validations))
    /\ UNCHANGED <<sagemaker_pipeline, registry, caller, validations, fail_fast, return_df,
                   ix, results, executed, returned_by_run, exit_code>>
    /\ UNCHANGED outside_config

\* the caller enters cm.run(fail_fast, return_df): line 294
Run(ff, df) ==
    /\ pc = "constructed"
    /\ caller = "api"
    /\ pc' = "running"
    /\ fail_fast' = ff
    /\ return_df' = df
    /\ ix' = 0
    /\ results' = <<>>
    /\ UNCHANGED <<sagemaker_pipeline, registry, caller, validations, self_validations,
                   executed, returned_by_run, outcome, exit_code>>
    /\ UNCHANGED outside_config

\* main() enters cm.run(return_df=True): cli/validate.py line 55
MainRun ==
    /\ pc = "constructed"
    /\ caller = "cli"
    /\ pc' = "running"
    /\ fail_fast' = FALSE
    /\ return_df' = TRUE
    /\ ix' = 0
    /\ results' = <<>>
    /\ UNCHANGED <<sagemaker_pipeline, registry, caller, validations, self_validations,
                   executed, returned_by_run, outcome, exit_code>>
    /\ UNCHANGED outside_config

\* a loop body that catches what validation.run raises and goes on with the
\* placeholder of a run without results
RunIteration_catching ==
    /\ pc = "running"
    /\ ix < Len(self_validations.list)
    /\ LET append(result) ==
               /\ results' = Append(results, result)
               /\ IF stops_run(result, fail_fast, ix, Len(self_validations.list))
                  THEN /\ pc' = "raised"
                       /\ outcome' = ValidationFailedError(result)
                       /\ UNCHANGED ix
                  ELSE /\ ix' = ix + 1
                       /\ UNCHANGED <<pc, outcome>>
           iteration(validation, returned) ==
               /\ executed' = Append(executed, ix + 1)
               /\ returned_by_run' = Append(returned_by_run, returned)
               /\ sagemaker_pipeline' = pipeline_after_run(validation, sagemaker_pipeline)
               /\ append(handle_empty_results(IF IsExc(returned) THEN PyNone ELSE returned,
                                              validation))
       IN iteration(self_validations.list[ix + 1],
                    Validation_run(self_validations.list[ix + 1], sagemaker_pipeline, registry))
    /\ UNCHANGED <<registry, caller, validations, self_validations,
                   fail_fast, return_df, exit_code>>
    /\ UNCHANGED outside_config

\* one iteration of the loop of Configuration.run: lines 295-304
RunIteration ==
    /\ pc = "running"
    /\ ix < Len(self_validations.list)
    /\ LET append(result) ==
               /\ results' = Append(results, result)
               /\ IF stops_run(result, fail_fast, ix, Len(self_validations.list))
                  THEN /\ pc' = "raised"
                       /\ outcome' = ValidationFailedError(result)
                       /\ UNCHANGED ix
                  ELSE /\ ix' = ix + 1
                       /\ UNCHANGED <<pc, outcome>>
           iteration(validation, returned) ==
               /\ executed' = Append(executed, ix + 1)
               /\ returned_by_run' = Append(returned_by_run, returned)
               /\ sagemaker_pipeline' = pipeline_after_run(validation, sagemaker_pipeline)
               /\ IF IsExc(returned)
                  THEN /\ pc' = "raised"
                       /\ outcome' = returned
                       /\ UNCHANGED <<results, ix>>
                  ELSE append(handle_empty_results(returned, validation))
       IN iteration(self_validations.list[ix + 1],
                    Validation_run(self_validations.list[ix + 1], sagemaker_pipeline, registry))
    /\ UNCHANGED <<registry, caller, validations, self_validations,
                   fail_fast, return_df, exit_code>>
    /\ UNCHANGED outside_config

\* the loop is over: return self._make_report(results, return_df), line 305
RunReturn ==
    /\ pc = "running"
    /\ ix = Len(self_validations.list)
    /\ pc' = "returned"
    /\ outcome' = make_report(results, return_df)
    /\ UNCHANGED <<sagemaker_pipeline, registry, caller, validations, self_validations,
                   fail_fast, return_df, ix, results, executed, returned_by_run, exit_code>>
    /\ UNCHANGED outside_config

\* main() after cm.run returned: cli/validate.py lines 56-60
MainExit ==
    /\ pc = "returned"
    /\ caller = "cli"
    /\ pc' = "exited"
    /\ exit_code' = main_exit_code(outcome)
    /\ UNCHANGED <<sagemaker_pipeline, registry, caller, validations, self_validations,
                   fail_fast, return_df, ix, results, executed, returned_by_run, outcome>>
    /\ UNCHANGED outside_config

Next ==
    \/ Construct
    \/ \E ff \in BOOLEAN, df \in BOOLEAN : Run(ff, df)
    \/ MainRun
    \/ RunIteration
    \/ RunReturn
    \/ MainExit

Spec == Init /\ [][Next]_vars

----------------------------------------------------------------------------
(* The path scenario: get_filtered_attributes and get_attribute applied to   *)
(* paths built the way the validations build them                            *)

KeyC == <<"a", "l", "i", "a", "s", "/", "k", "3">>

KeyD == <<"a", "l", "i", "a", "s", "/", "k", "4">>

s_instance_count ==
    <<"i", "n", "s", "t", "a", "n", "c", "e", "_", "c", "o", "u", "n", "t">>

\* Processor(..., instance_count=count): the step whose processor holds the int
with_instance_count(step, count) ==
    PyObj([step.obj EXCEPT ![s_processor] = PyObj(s_instance_count :> PyInt(count) @@ @.obj)])

\* steps whose names differ in a blank or a slash only, with one key each and,
\* where they have a processor, its number of instances
PathSteps ==
    { with_instance_count(ProcessingStep(<<"a", "b">>, KeyA, IMAGE_1_URI, <<TagA>>), 2),
      with_instance_count(ProcessingStep(<<"a", " ", "b">>, KeyB, IMAGE_1_URI, <<TagA>>), 1),
      with_instance_count(ProcessingStep(<<"a", "/", "b">>, KeyC, IMAGE_2_URI, <<TagB>>), 2),
      TrainingStep(<<"b">>, KeyD, IMAGE_2_URI, <<TagB>>),
      LambdaStep(<<"c">>, <<"f">>) }

PathPipelines == {Pipeline(steps, <<>>) : steps \in SeqsUpTo(PathSteps, MaxSteps)}

\* how a path is built: which steps it selects and which attributes it reads
Query(kind, step_name, step_type, attrs) ==
    [kind |-> kind, step_name |-> step_name, step_type |-> step_type, attrs |-> attrs]

\* ".steps[]"
AllSteps == Query("all", PyNone, <<>>, <<>>)

\* ".steps[].{attr}"
Bare(attr) == Query("bare", PyNone, <<>>, <<attr>>)

\* ".steps[ && ].name": a bracket all of whose conditions are empty
NoConditions == Query("no_conditions", PyNone, <<>>, <<s_name>>)

\* the paths of StepKmsKeyIdAsExpected(step_name=...)
Filter(step_name, step_type, attrs) == Query("filter", step_name, step_type, attrs)

\* ".steps[processor/instance_count=={count}].name", count as written in the path
ByInstanceCount(count) == Query("instance_count", PyNone, count, <<s_name>>)

\* the path string of a query
path_of(q) ==
    IF q.kind = "instance_count"
    THEN <<".">> \o s_steps \o <<"[">> \o s_processor \o <<"/">> \o s_instance_count
         \o <<"=", "=">> \o q.step_type \o <<"]", ".">> \o Join(q.attrs, <<".">>)
    ELSE IF q.kind = "all" THEN <<".">> \o s_steps \o <<"[", "]">>
    ELSE IF q.kind = "bare"
    THEN <<".">> \o s_steps \o <<"[", "]", ".">> \o Join(q.attrs, <<".">>)
    ELSE IF q.kind = "no_conditions"
    THEN <<".">> \o s_steps \o <<"[", " ", "&", "&", " ", "]", ".">> \o Join(q.attrs, <<".">>)
    ELSE StepTypePath(step_filter(q.step_name), q.step_type, q.attrs)

paths_of(qs) == [i \in DOMAIN qs |-> path_of(qs[i])]

StepNames == {<<"a", "b">>, <<"a", " ", "b">>, <<"a", "/", "b">>}

Queries ==
    { AllSteps, Bare(s_kms_key), NoConditions,
      Filter(PyNone, s_Processing, <<s_kms_key>>),
      Filter(PyNone, s_Training, <<s_estimator, s_output_kms_key>>) }
    \cup {Filter(PyStr(n), s_Processing, <<s_kms_key>>) : n \in StepNames}

\* one path, or two as most validations have; the condition on an int
\* attribute on its own
QueryLists ==
    {<<q>> : q \in Queries} \cup {<<p, q>> : p \in Queries, q \in Queries}
    \cup {<<ByInstanceCount(<<"2">>)>>, <<ByInstanceCount(<<"1">>)>>}

\* a traversal that assigns the working value to the pipeline's steps
pipeline_after_get_attribute_assigning(pipeline, paths) ==
    Pipeline(get_attribute(pipeline, paths).list, pipeline.obj[s_parameters].list)

\* get_attribute assigns to its locals only (model.py lines 123-143): the
\* graph the caller handed in after the call
pipeline_after_get_attribute(pipeline, paths) == pipeline

InitPath ==
    /\ pc = "path_ready"
    /\ sagemaker_pipeline \in PathPipelines
    /\ pipeline_before = sagemaker_pipeline
    /\ query \in QueryLists
    /\ filtered_steps = PyNone
    /\ resolved = PyNone
    /\ resolved_again = PyNone
    /\ registry = {}
    /\ caller = "api"
    /\ IdleConfig
    /\ IdleRule
    /\ IdleRun

\* Validation.get_filtered_attributes(filter_subject=sagemaker_pipeline.steps, path=...)
GetFilteredAttributes ==
    /\ pc = "path_ready"
    /\ Len(query) = 1
    /\ query[1].kind \in {"filter", "no_conditions", "instance_count"}
    /\ filtered_steps' = get_filtered_attributes(getattr(sagemaker_pipeline, s_steps),
                                                 path_of(query[1]))
    /\ pc' = "path_filtered"
    /\ UNCHANGED <<sagemaker_pipeline, query, resolved, resolved_again>>
    /\ UNCHANGED outside_path

\* Validation.get_attribute(sagemaker_pipeline, paths)
GetAttribute ==
    /\ pc = "path_ready"
    /\ resolved' = get_attribute(sagemaker_pipeline, paths_of(query))
    /\ sagemaker_pipeline' = pipeline_after_get_attribute(sagemaker_pipeline, paths_of(query))
    /\ pc' = "path_resolved"
    /\ UNCHANGED <<query, filtered_steps, resolved_again>>
    /\ UNCHANGED outside_path

\* the same call once more
GetAttributeAgain ==
    /\ pc = "path_resolved"
    /\ resolved_again' = get_attribute(sagemaker_pipeline, paths_of(query))
    /\ sagemaker_pipeline' = pipeline_after_get_attribute(sagemaker_pipeline, paths_of(query))
    /\ pc' = "path_resolved_again"
    /\ UNCHANGED <<query, filtered_steps, resolved>>
    /\ UNCHANGED outside_path

NextPath == GetFilteredAttributes \/ GetAttribute \/ GetAttributeAgain

PathSpec == InitPath /\ [][NextPath]_vars

----------------------------------------------------------------------------
(* The validation scenario: validations run one after the other on the       *)
(* caller's pipeline, each against the mocked services                       *)

RoleArn1 ==
    <<"a", "r", "n", ":", "i", "a", "m", ":", ":", "1", ":", "r", "o", "l", "e", "/", "r", "1">>

RoleArn2 ==
    <<"a", "r", "n", ":", "i", "a", "m", ":", ":", "1", ":", "r", "o", "l", "e", "/", "r", "2">>

FuncA == <<"t", "e", "s", "t", "-", "f", "u", "n", "c">>

FuncB == <<"o", "t", "h", "e", "r", "-", "f", "u", "n", "c">>

\* the step with role=role_arn given to its processor or estimator
with_role(step, role_arn) ==
    IF s_processor \in DOMAIN step.obj
    THEN PyObj((s_processor :> PyObj((s_role :> PyStr(role_arn)) @@ step.obj[s_processor].obj))
               @@ step.obj)
    ELSE PyObj((s_estimator :> PyObj((s_role :> PyStr(role_arn)) @@ step.obj[s_estimator].obj))
               @@ step.obj)

RunSteps ==
    [processing |-> with_role(ProcessingStep(<<"a">>, KeyA, IMAGE_1_URI, <<TagA>>), RoleArn1),
     training |-> with_role(TrainingStep(<<"b">>, KeyB, IMAGE_2_URI, <<TagA>>), RoleArn2),
     lambda |-> LambdaStep(<<"c">>, FuncA),
     lambda_2 |-> LambdaStep(<<"d">>, FuncB)]

RunStepLists ==
    { <<>>,
      <<RunSteps.processing, RunSteps.training>>,
      <<RunSteps.training, RunSteps.lambda>>,
      <<RunSteps.lambda, RunSteps.lambda_2>>,
      <<RunSteps.processing, RunSteps.lambda_2, RunSteps.training>> }

ParameterLists ==
    { <<ParameterString(<<"p", "1">>, PyStr(<<"v", "1">>))>>,
      <<ParameterString(<<"p", "1">>, PyStr(<<"v", "1">>)),
        ParameterString(<<"p", "2">>, PyNone)>> }

RunPipelines == {Pipeline(steps, parameters) : steps \in RunStepLists,
                                               parameters \in ParameterLists}

RunRegistries == Registries \cup {{Registered(IMAGE_1_URI), Registered(IMAGE_2_URI)}}

LambdaClients == { {}, {PyStr(FuncA)} }

IamClients == { {}, {PyStr(<<"r", "1">>)} }

RunValidations ==
    { PipelineParametersAsExpected(PyList(<<ParameterString(<<"p", "1">>, PyNone)>>),
                                   Equals(FALSE), TRUE),
      PipelineParametersAsExpected(PyList(<<ParameterString(<<"p", "1">>, PyStr(<<"v", "1">>))>>),
                                   Equals(FALSE), FALSE),
      StepImagesExist(PyNone),
      StepLambdaFunctionExists,
      StepRoleNameExists(PyNone),
      StepKmsKeyIdAsExpected(KeyA, Contains(FALSE), PyNone),
      StepTagsAsExpected(PyList(<<TagA>>), Equals(FALSE), PyNone) }

InitRun ==
    /\ pc = "validation_ready"
    /\ sagemaker_pipeline \in RunPipelines
    /\ pipeline_before = sagemaker_pipeline
    /\ registry \in RunRegistries
    /\ lambda_functions \in LambdaClients
    /\ iam_roles \in IamClients
    /\ current_validation = PyNone
    /\ current_result = PyNone
    /\ arguments = PyNone
    /\ caller = "api"
    /\ IdleConfig
    /\ IdleRule
    /\ IdlePath

\* validation.run(sagemaker_pipeline), for the first time or after other runs
RunValidation ==
    /\ pc \in {"validation_ready", "validation_done"}
    /\ \E v \in RunValidations :
          /\ current_validation' = v
          /\ current_result' = run(v, sagemaker_pipeline,
                                   Clients(registry, lambda_functions, iam_roles))
          /\ sagemaker_pipeline' = pipeline_after_run(v, sagemaker_pipeline)
    /\ pc' = "validation_done"
    /\ UNCHANGED <<registry, lambda_functions, iam_roles, arguments>>
    /\ UNCHANGED outside_run

NextRun == RunValidation

ValidationSpec == InitRun /\ [][NextRun]_vars

----------------------------------------------------------------------------
(* The constructor scenario: StepInputsAsExpected(...) called once           *)

StepTypeArgs ==
    { PyNone, PyStr(<<>>), PyStr(s_Training), PyStr(s_Processing), PyStr(s_Lambda),
      PyStr(<<"T", "u", "n", "i", "n", "g">>),
      PyStr(<<"t", "r", "a", "i", "n", "i", "n", "g">>) }

StepNameArgs == {PyNone, PyStr(<<>>), PyStr(<<"a">>), PyStr(<<"a", " ", "b">>)}

InputsExpectedArgs == {PyList(<<>>), PyList(<<PyDict(<< <<Foo, Bar>> >>)>>)}

InitInputs ==
    /\ pc = "inputs_ready"
    /\ arguments \in [inputs_expected : InputsExpectedArgs, rule : Rules,
                      step_type : StepTypeArgs, step_name : StepNameArgs]
    /\ current_validation = PyNone
    /\ current_result = PyNone
    /\ lambda_functions = {}
    /\ iam_roles = {}
    /\ sagemaker_pipeline = PyNone
    /\ pipeline_before = PyNone
    /\ registry = {}
    /\ caller = "api"
    /\ IdleConfig
    /\ IdleRule
    /\ IdlePath

\* StepInputsAsExpected(inputs_expected, rule, step_type, step_name)
ConstructStepInputs ==
    /\ pc = "inputs_ready"
    /\ current_validation' = StepInputsAsExpected(arguments.inputs_expected, arguments.rule,
                                                  arguments.step_type, arguments.step_name)
    /\ pc' = IF IsExc(current_validation') THEN "inputs_raised" ELSE "inputs_constructed"
    /\ UNCHANGED <<sagemaker_pipeline, registry, current_result, lambda_functions, iam_roles,
                   arguments>>
    /\ UNCHANGED outside_run

NextInputs == ConstructStepInputs

StepInputsSpec == InitInputs /\ [][NextInputs]_vars

----------------------------------------------------------------------------
(* The client scenario: an existence validation constructed once with a      *)
(* boto3_client argument                                                     *)

\* a client object as boto3.client(service) returns it
Boto3Client(service) == [boto3_client |-> service]

ClientArgs ==
    { PyNone, PyStr(<<>>), PyStr(<<"e", "c", "r">>), PyStr(<<"l", "a", "m", "b", "d", "a">>),
      PyStr(<<"i", "a", "m">>), PyStr(<<"E", "C", "R">>), PyStr(<<"s", "3">>),
      PyStr(<<"n", "o", "t", "-", "a", "-", "b", "o", "t", "o", "3", "-",
              "c", "l", "i", "e", "n", "t">>),
      Boto3Client(<<"e", "c", "r">>), Boto3Client(<<"l", "a", "m", "b", "d", "a">>),
      Boto3Client(<<"i", "a", "m">>) }

ExistenceClasses == {"StepImagesExist", "StepLambdaFunctionExists", "StepRoleNameExists"}

InitClient ==
    /\ pc = "client_ready"
    /\ arguments \in [cls : ExistenceClasses, boto3_client : ClientArgs,
                      step_name : StepNameArgs]
    /\ current_validation = PyNone
    /\ current_result = PyNone
    /\ lambda_functions = {}
    /\ iam_roles = {}
    /\ sagemaker_pipeline = PyNone
    /\ pipeline_before = PyNone
    /\ registry = {}
    /\ caller = "api"
    /\ IdleConfig
    /\ IdleRule
    /\ IdlePath

\* cls(boto3_client=..., step_name=...); StepLambdaFunctionExists takes no step_name
ConstructWithClient ==
    /\ pc = "client_ready"
    /\ current_validation' =
         IF arguments.cls = "StepImagesExist"
         THEN StepImagesExist_init(arguments.boto3_client, arguments.step_name)
         ELSE IF arguments.cls = "StepLambdaFunctionExists"
         THEN StepLambdaFunctionExists_init(arguments.boto3_client)
         ELSE StepRoleNameExists_init(arguments.step_name, arguments.boto3_client)
    /\ pc' = IF IsExc(current_validation') THEN "client_raised" ELSE "client_constructed"
    /\ UNCHANGED <<sagemaker_pipeline, registry, current_result, lambda_functions, iam_roles,
                   arguments>>
    /\ UNCHANGED outside_run

NextClient == ConstructWithClient

ClientSpec == InitClient /\ [][NextClient]_vars

----------------------------------------------------------------------------
(* The matching scenario: a StepOutputsMatchInputsAsExpected constructed and *)
(* run once                                                                  *)

LocationX == <<"s", "3", ":", "/", "/", "x">>

LocationY == <<"s", "3", ":", "/", "/", "y">>

Locations == {LocationX, LocationY}

\* the step with the inputs and outputs of its processor's run
with_io(step, inputs, outputs) ==
    PyObj((s_inputs :> PyList(inputs) @@ s_outputs :> PyList(outputs)) @@ step.obj)

\* TrainingStep(..., inputs={...}): the step with its dict of inputs
with_inputs(step, inputs) == PyObj(s_inputs :> inputs @@ step.obj)

s_train == <<"t", "r", "a", "i", "n">>

\* step "a" writes o1 and o2, step "b" reads i1 and i2, step "c" is a
\* LambdaStep, step "t" is a TrainingStep reading "train"
IoPipelines ==
    { Pipeline(<< with_io(ProcessingStep(<<"a">>, KeyA, IMAGE_1_URI, <<TagA>>), <<>>,
                          <<ProcessingOutput(<<"o", "1">>, d1),
                            ProcessingOutput(<<"o", "2">>, d2)>>),
                  with_io(ProcessingStep(<<"b">>, KeyA, IMAGE_1_URI, <<TagA>>),
                          <<ProcessingInput(<<"i", "1">>, s1),
                            ProcessingInput(<<"i", "2">>, s2)>>, <<>>),
                  LambdaStep(<<"c">>, FuncA),
                  with_inputs(TrainingStep(<<"t">>, KeyA, IMAGE_1_URI, <<TagA>>),
                              PyDict(<< <<PyStr(s_train), TrainingInput(LocationX)>> >>)) >>,
               <<>>)
      : d1 \in Locations, d2 \in Locations, s1 \in Locations, s2 \in Locations }

\* pairs over these steps, one naming a step and one naming an input that
\* does not exist
IoPairs ==
    { IoPair(<<"b">>, <<"i", "1">>, <<"a">>, <<"o", "1">>),
      IoPair(<<"b">>, <<"i", "2">>, <<"a">>, <<"o", "2">>),
      IoPair(<<"b">>, <<"i", "1">>, <<"a">>, <<"o", "2">>),
      IoPair(<<"z">>, <<"i", "1">>, <<"a">>, <<"o", "1">>),
      IoPair(<<"b">>, <<"i", "3">>, <<"a">>, <<"o", "1">>) }

\* the inputs a StepInputsAsExpected of the scenario expects
IoInputsExpected ==
    { PyList(<<ProcessingInput(<<"i", "1">>, LocationX), ProcessingInput(<<"i", "2">>, LocationY)>>),
      PyList(<<PyDict(<< <<PyStr(s_train), TrainingInput(LocationX)>> >>)>>) }

\* StepInputsAsExpected by the name of each step, of a step that does not
\* exist, and by each step type
IoInputsValidations ==
    { StepInputsAsExpected(inputs_expected, Equals(FALSE), PyNone, PyStr(step_name)) :
          inputs_expected \in IoInputsExpected,
          step_name \in {<<"a">>, <<"b">>, <<"c">>, <<"t">>, <<"z">>} }
    \cup { StepInputsAsExpected(inputs_expected, Equals(FALSE), PyStr(step_type), PyNone) :
              inputs_expected \in IoInputsExpected, step_type \in {s_Processing, s_Training} }

InitMatch ==
    /\ pc = "match_ready"
    /\ sagemaker_pipeline \in IoPipelines
    /\ pipeline_before = sagemaker_pipeline
    /\ current_validation \in {StepOutputsMatchInputsAsExpected(pairs) :
                                  pairs \in SeqsUpTo(IoPairs, MaxPairs)}
                               \cup IoInputsValidations
    /\ current_result = PyNone
    /\ arguments = PyNone
    /\ lambda_functions = {}
    /\ iam_roles = {}
    /\ registry = {}
    /\ caller = "api"
    /\ IdleConfig
    /\ IdleRule
    /\ IdlePath

\* current_validation.run(sagemaker_pipeline)
RunConstructed ==
    /\ pc = "match_ready"
    /\ current_result' = run(current_validation, sagemaker_pipeline,
                             Clients(registry, lambda_functions, iam_roles))
    /\ sagemaker_pipeline' = pipeline_after_run(current_validation, sagemaker_pipeline)
    /\ current_validation' = validation_after_run(current_validation, sagemaker_pipeline)
    /\ pc' = "match_done"
    /\ UNCHANGED <<registry, lambda_functions, iam_roles, arguments>>
    /\ UNCHANGED outside_run

\* current_validation.run(sagemaker_pipeline), a second time
RunConstructedAgain ==
    /\ pc = "match_done"
    /\ current_result' = run(current_validation, sagemaker_pipeline,
                             Clients(registry, lambda_functions, iam_roles))
    /\ sagemaker_pipeline' = pipeline_after_run(current_validation, sagemaker_pipeline)
    /\ current_validation' = validation_after_run(current_validation, sagemaker_pipeline)
    /\ pc' = "match_done_again"
    /\ UNCHANGED <<registry, lambda_functions, iam_roles, arguments>>
    /\ UNCHANGED outside_run

NextMatch == RunConstructed \/ RunConstructedAgain

MatchSpec == InitMatch /\ [][NextMatch]_vars

----------------------------------------------------------------------------
(* Claims about Configuration and main(), checked under Spec *)

\* the run of cm.run has begun
InRun == pc \in {"running", "returned", "raised", "exited"}

\* what the k-th call of validation.run hands to the list `results`
produced(k) == handle_empty_results(returned_by_run[k], self_validations.list[k])

\* the results held by the value cm.run returned
ReportResults(report) == IF "df" \in DOMAIN report THEN report.df ELSE report.results

\* C1: under fail_fast=True, as soon as the validation at a position that is
\* not the last one has failed, run has raised ValidationFailedError carrying
\* exactly that validation's result, and no validation at a later position
\* has been executed.
C1_FailFastRaisesAtFirstFailure ==
    (InRun /\ fail_fast) =>
        \A p \in DOMAIN results :
            (~results[p].success /\ p < Len(self_validations.list)) =>
                /\ pc = "raised"
                /\ outcome = ValidationFailedError(results[p])
                /\ executed[p] = p
                /\ results[p] = produced(p)
                /\ \A q \in Range(executed) : q <= p

\* of three validations the second has failed under fail_fast=True: the run
\* has raised with its result and the third was not executed
C1_Witness ==
    /\ pc = "raised" /\ fail_fast
    /\ Len(self_validations.list) = 3
    /\ executed = <<1, 2>>
    /\ Len(results) = 2 /\ results[1].success /\ ~results[2].success
    /\ outcome = ValidationFailedError(results[2])

IsEmptyValue(v) == v \in {PyList(<<>>), PyNone, PyStr(<<>>), [tuple |-> <<>>]}

\* a list all of whose elements are Validations
IsValidationList(v) == IsList(v) /\ \A i \in DOMAIN v.list : IsValidation(v.list[i])

\* C4: construction raises ValueError when `validations` is empty, raises
\* TypeError when it is not empty and is not a list or holds an element that
\* is not a Validation, and in every other case succeeds and stores the list
\* it was given.
C4_ConstructionRejectsBadLists ==
    (pc # "start") =>
        IF IsEmptyValue(validations)
        THEN pc = "construction_failed" /\ outcome = Raise("ValueError")
        ELSE IF ~IsValidationList(validations)
        THEN pc = "construction_failed" /\ outcome = Raise("TypeError")
        ELSE pc # "construction_failed" /\ self_validations = validations

\* construction has raised TypeError for a list whose first element is a
\* Validation and whose second is not
C4_Witness ==
    /\ pc = "construction_failed"
    /\ IsList(validations) /\ Len(validations.list) = 2
    /\ IsValidation(validations.list[1]) /\ ~IsValidation(validations.list[2])
    /\ outcome = Raise("TypeError")

\* C5: where a validation's run returned None, the list of results holds a
\* placeholder with success=False, negative=False, the validation's name, and
\* a message naming the validation and each of its paths; the run then goes
\* as after any failing result: it raises ValidationFailedError with the
\* placeholder when fail_fast is set and the position is not the last, and
\* does not stop at that position otherwise.
C5_NoneBecomesFailingPlaceholder ==
    InRun =>
        \A k \in DOMAIN results :
            (executed[k] = k /\ returned_by_run[k] = PyNone) =>
                /\ results[k].success = FALSE
                /\ results[k].negative = FALSE
                /\ results[k].validation_name = self_validations.list[k].name
                /\ Contains_str(results[k].message, self_validations.list[k].name)
                /\ \A i \in DOMAIN self_validations.list[k].paths :
                       Contains_str(results[k].message, self_validations.list[k].paths[i])
                /\ IF fail_fast /\ k < Len(self_validations.list)
                   THEN pc = "raised" /\ outcome = ValidationFailedError(results[k])
                   ELSE pc = "raised" => Len(executed) > k

\* a run under fail_fast=False has returned three results, the second being
\* the placeholder of a validation whose run returned None
C5_Witness ==
    /\ pc = "returned" /\ ~fail_fast
    /\ Len(results) = 3
    /\ executed = <<1, 2, 3>>
    /\ returned_by_run[2] = PyNone
    /\ ~results[2].success
    /\ results[3].success

\* all the paths of validation k match zero elements of the pipeline
nothing_to_check(k) ==
    get_attribute(sagemaker_pipeline, self_validations.list[k].paths) = PyList(<<>>)

\* C6: every executed validation whose paths all match zero elements of the
\* pipeline has a result in the run, and that result has success=False.
C6_NothingToCheckFails ==
    InRun =>
        \A k \in Range(executed) :
            nothing_to_check(k) => (k <= Len(results) /\ ~results[k].success)

\* C7: main() exits with code 0 iff every result of the run has success=True,
\* and with code 1 when at least one result has success=False.
C7_ExitCodeZeroIffAllSucceed ==
    (pc = "exited") =>
        /\ Len(results) = Len(self_validations.list)
        /\ (exit_code = 0) <=> (\A k \in DOMAIN results : results[k].success)
        /\ (\E k \in DOMAIN results : ~results[k].success) => exit_code = 1

\* main() has exited with code 1 after a run whose first result failed and
\* whose last result succeeded
C7_Witness ==
    /\ pc = "exited" /\ exit_code = 1
    /\ Len(results) >= 2
    /\ ~results[1].success
    /\ results[Len(results)].success

----------------------------------------------------------------------------
(* Claims about the rules, checked under RuleSpec *)

IsScalarSeq(x) == IsList(x) /\ Len(x.list) > 0 /\ \A i \in DOMAIN x.list : x.list[i] \in Scalars

\* C8: for non-empty sequences of hashable scalars, Equals(negative=False)
\* succeeds iff the sets of distinct elements of observed and expected are
\* equal, Equals(negative=True) succeeds iff they differ, and the result's
\* negative field is the rule's flag.
C8_EqualsIsSetEquality ==
    (pc = "rule_done" /\ rule \in {Equals(FALSE), Equals(TRUE)}
        /\ IsScalarSeq(observed) /\ IsScalarSeq(expected))
    => /\ IsResult(rule_result)
       /\ rule_result.success
            = IF rule.negative THEN Range(observed.list) # Range(expected.list)
                               ELSE Range(observed.list) = Range(expected.list)
       /\ rule_result.negative = rule.negative

\* Equals() has succeeded on two scalar lists that differ in order, and on
\* two that differ in the number of duplicates
C8_Witness ==
    /\ pc = "rule_done" /\ rule = Equals(FALSE)
    /\ IsScalarSeq(observed) /\ IsScalarSeq(expected)
    /\ observed # expected
    /\ Len(observed.list) = MaxOperandLen
    /\ rule_result.success

\* C9: when both operands of Equals(negative=False) are dicts, success is
\* dict equality: same keys and the same value for every key.
C9_DictsCompareByEquality ==
    (pc = "rule_done" /\ rule = Equals(FALSE) /\ IsDict(observed) /\ IsDict(expected))
    => /\ IsResult(rule_result)
       /\ rule_result.success = PyEq(observed, expected)

\* the rule of the same class with the opposite negative flag
opposite(r) == Rule(r.rule, ~r.negative)

\* C11: for the same observed and expected, the rule with negative=True and
\* the rule with negative=False produce the same message text; only success
\* differs.
C11_MessageIgnoresNegation ==
    (pc = "rule_done" /\ IsResult(rule_result)) =>
        /\ rule_result.message
             = Rule_run(opposite(rule), observed, expected, some_validation).message
        /\ rule_result.success
             # Rule_run(opposite(rule), observed, expected, some_validation).success

\* C10: Contains(negative=False) succeeds iff every element of expected is a
\* member of observed, each element checked against the whole of observed
\* (matches are not used up); Contains(negative=True) returns the inverse.
C10_ContainsIsMembership ==
    (pc = "rule_done" /\ rule \in {Contains(FALSE), Contains(TRUE)}
        /\ IsList(observed) /\ IsList(expected))
    => /\ IsResult(rule_result)
       /\ rule_result.success
            = ((\A i \in DOMAIN expected.list : \E j \in DOMAIN observed.list :
                    PyEq(expected.list[i], observed.list[j])) # rule.negative)

\* Contains() has succeeded with expected = [x, x] against observed = [x]
C10_Witness ==
    /\ pc = "rule_done" /\ rule = Contains(FALSE)
    /\ IsList(observed) /\ IsList(expected)
    /\ Len(observed.list) = 1 /\ Len(expected.list) = 2
    /\ expected.list[1] = expected.list[2]
    /\ rule_result.success

----------------------------------------------------------------------------
(* Claims about the path resolver, checked under PathSpec *)

\* the steps of a pipeline, in declaration order
steps_of(pipeline) == pipeline.obj[s_steps].list

\* the first call of get_attribute has returned
Resolved == pc \in {"path_resolved", "path_resolved_again"}

\* a name without the characters the path syntax gives a meaning to
PlainName(n) == \A i \in DOMAIN n : n[i] \notin {" ", "/", "."}

PlainQuery(q) == IsStr(q.step_name) => PlainName(q.step_name.str)

\* every condition of the bracket of q holds for step s
holds_all(q, s) ==
    \/ q.kind \in {"all", "bare", "no_conditions"}
    \/ /\ q.kind = "filter"
       /\ IsStr(q.step_name) => s.obj[s_name] = q.step_name
       /\ s.obj[s_step_type].obj[s_value] = PyStr(q.step_type)

RECURSIVE pluck(_, _)
\* the values reached from items along attrs, items lacking an attribute left out
pluck(items, attrs) ==
    IF Len(attrs) = 0 THEN items
    ELSE LET values(have) == [i \in DOMAIN have |-> have[i].obj[Head(attrs)]]
         IN pluck(values(SelectSeq(items, LAMBDA x : IsObj(x) /\ Head(attrs) \in DOMAIN x.obj)),
                  Tail(attrs))

\* what the path of q selects from a pipeline
selected_by(q, pipeline) ==
    pluck(SelectSeq(steps_of(pipeline), LAMBDA s : holds_all(q, s)), q.attrs)

\* C12: resolving the single path ".steps[]" over a pipeline with N steps
\* returns exactly the N steps themselves in declaration order, for N >= 0.
C12_AllStepsInDeclarationOrder ==
    (Resolved /\ query = <<AllSteps>>) =>
        /\ IsList(resolved)
        /\ Len(resolved.list) = Len(steps_of(pipeline_before))
        /\ \A i \in DOMAIN resolved.list : resolved.list[i] = steps_of(pipeline_before)[i]

\* ".steps[]" has been resolved over a pipeline of two different steps
C12_Witness ==
    /\ Resolved /\ query = <<AllSteps>>
    /\ Len(steps_of(pipeline_before)) = MaxSteps
    /\ steps_of(pipeline_before)[1] # steps_of(pipeline_before)[2]
    /\ resolved = PyList(steps_of(pipeline_before))

\* C13: get_filtered_attributes keeps an element iff all of the "&&"-joined
\* conditions hold for it, keeps the kept elements in their order, and ignores
\* empty conditions, so a bracket of empty conditions only keeps every element.
C13_FilterKeepsWhereAllConditionsHold ==
    (/\ pc = "path_filtered"
     /\ query[1].kind \in {"filter", "no_conditions"}
     /\ PlainQuery(query[1])) =>
        /\ IsList(filtered_steps)
        /\ filtered_steps.list
             = SelectSeq(steps_of(pipeline_before), LAMBDA s : holds_all(query[1], s))

\* of two Processing steps the filter on name and step type has kept only the
\* one with the name
C13_Witness ==
    /\ pc = "path_filtered"
    /\ query = <<Filter(PyStr(<<"a", "b">>), s_Processing, <<s_kms_key>>)>>
    /\ Len(steps_of(pipeline_before)) = 2
    /\ \A i \in 1..2 : steps_of(pipeline_before)[i].obj[s_step_type] = StepType(s_Processing)
    /\ steps_of(pipeline_before)[2].obj[s_name] = PyStr(<<"a", "b">>)
    /\ filtered_steps = PyList(<<steps_of(pipeline_before)[2]>>)

\* C14: the right-hand side of a condition is compared by exact string
\* equality: for every step name s, blanks, "/" or "-" included, the path of a
\* validation built with step_name=s resolves over exactly the steps named s.
C14_StepNameComparedExactly ==
    (Resolved /\ Len(query) = 1 /\ query[1].kind = "filter" /\ IsStr(query[1].step_name)) =>
        /\ IsList(resolved)
        /\ resolved.list = selected_by(query[1], pipeline_before)

\* C15: a bare attribute segment drops, without error, every element lacking
\* the attribute and keeps the values of the others in their order; the result
\* is as long as the number of elements having the attribute.
C15_BareSegmentDropsLacking ==
    (Resolved /\ query = <<Bare(s_kms_key)>>) =>
        /\ IsList(resolved)
        /\ Len(resolved.list)
             = Cardinality({i \in DOMAIN steps_of(pipeline_before) :
                               s_kms_key \in DOMAIN steps_of(pipeline_before)[i].obj})
        /\ resolved.list = pluck(steps_of(pipeline_before), <<s_kms_key>>)

\* ".steps[].kms_key" over a step without kms_key followed by one with it
C15_Witness ==
    /\ Resolved /\ query = <<Bare(s_kms_key)>>
    /\ Len(steps_of(pipeline_before)) = 2
    /\ s_kms_key \notin DOMAIN steps_of(pipeline_before)[1].obj
    /\ s_kms_key \in DOMAIN steps_of(pipeline_before)[2].obj
    /\ resolved = PyList(<<steps_of(pipeline_before)[2].obj[s_kms_key]>>)

\* C16: get_attribute with several paths returns the per-path results
\* concatenated in path order, each in its own order; a path without matches
\* contributes nothing and raises no error.
C16_PathsConcatenatedInPathOrder ==
    (Resolved /\ Len(query) = 2 /\ PlainQuery(query[1]) /\ PlainQuery(query[2])) =>
        /\ IsList(resolved)
        /\ resolved.list = selected_by(query[1], pipeline_before)
                             \o selected_by(query[2], pipeline_before)

\* the Training path comes first and the Processing step is declared first:
\* the key of the Training step is returned first
C16_Witness ==
    /\ Resolved
    /\ query = <<Filter(PyNone, s_Training, <<s_estimator, s_output_kms_key>>),
                 Filter(PyNone, s_Processing, <<s_kms_key>>)>>
    /\ Len(steps_of(pipeline_before)) = 2
    /\ steps_of(pipeline_before)[1].obj[s_step_type] = StepType(s_Processing)
    /\ steps_of(pipeline_before)[2].obj[s_step_type] = StepType(s_Training)
    /\ resolved = PyList(<<steps_of(pipeline_before)[2].obj[s_estimator].obj[s_output_kms_key],
                           steps_of(pipeline_before)[1].obj[s_kms_key]>>)

----------------------------------------------------------------------------
(* Claims about single validations, checked under ValidationSpec and         *)
(* StepInputsSpec                                                            *)

\* C18: running validations never changes the caller's pipeline graph: after
\* any sequence of runs, PipelineParametersAsExpected with
\* ignore_default_value=True included, every parameter and step still has the
\* field values it had before.
C18_RunsLeavePipelineUnchanged ==
    pc = "validation_done" => sagemaker_pipeline = pipeline_before

ExistenceValidations ==
    {StepImagesExist(PyNone), StepLambdaFunctionExists, StepRoleNameExists(PyNone)}

\* the items an existence validation looks up, in the order of its paths
looked_up(v, pipeline) ==
    IF v.validation = "StepImagesExist"
    THEN selected_by(Filter(PyNone, s_Processing, <<s_processor, s_image_uri>>), pipeline)
         \o selected_by(Filter(PyNone, s_Training, <<s_estimator, s_image_uri>>), pipeline)
    ELSE IF v.validation = "StepLambdaFunctionExists"
    THEN selected_by(Filter(PyNone, s_Lambda, <<s_lambda_func>>), pipeline)
    ELSE LET names(arns) == [i \in DOMAIN arns |-> role_name(arns[i])]
         IN names(selected_by(Filter(PyNone, s_Processing, <<s_processor, s_role>>), pipeline)
                  \o selected_by(Filter(PyNone, s_Training, <<s_estimator, s_role>>), pipeline))

\* the service does not know item x
not_found(v, x) ==
    IF v.validation = "StepImagesExist" THEN Registered(x.str) \notin registry
    ELSE IF v.validation = "StepLambdaFunctionExists" THEN x \notin lambda_functions
    ELSE x \notin iam_roles

\* C19: StepImagesExist, StepLambdaFunctionExists and StepRoleNameExists return
\* success=True iff no looked-up item was not found; otherwise success=False
\* with a message naming every item not found; a failed lookup is never
\* propagated as an exception; negative is always False.
C19_ExistenceFailsIffSomethingNotFound ==
    (pc = "validation_done" /\ current_validation \in ExistenceValidations) =>
        /\ IsResult(current_result)
        /\ ~current_result.negative
        /\ current_result.success
             = (\A i \in DOMAIN looked_up(current_validation, pipeline_before) :
                   ~not_found(current_validation, looked_up(current_validation, pipeline_before)[i]))
        /\ ~current_result.success =>
               \A i \in DOMAIN looked_up(current_validation, pipeline_before) :
                   not_found(current_validation, looked_up(current_validation, pipeline_before)[i])
                   => Contains_str(current_result.message,
                                   looked_up(current_validation, pipeline_before)[i].str)

\* of the two images of the pipeline only the first is registered: the result
\* fails and names the second, not the first
C19_Witness ==
    /\ pc = "validation_done"
    /\ current_validation = StepImagesExist(PyNone)
    /\ registry = {Registered(IMAGE_1_URI)}
    /\ looked_up(current_validation, pipeline_before) = <<PyStr(IMAGE_1_URI), PyStr(IMAGE_2_URI)>>
    /\ IsResult(current_result)
    /\ ~current_result.success
    /\ Contains_str(current_result.message, IMAGE_2_URI)
    /\ ~Contains_str(current_result.message, IMAGE_1_URI)

\* an argument is given: neither None nor the empty string
given(x) == IsStr(x) /\ Len(x.str) > 0

\* C20: StepInputsAsExpected(...) raises ValueError when both step_type and
\* step_name are given, when neither is, and when step_type alone is given
\* and is not 'Training' or 'Processing'; it succeeds exactly when one of the
\* two is given and, if it is step_type, the value is one of these two.
C20_StepInputsArgumentsChecked ==
    (pc \in {"inputs_raised", "inputs_constructed"}) =>
        /\ IsExc(current_validation) => current_validation = Raise("ValueError")
        /\ IsExc(current_validation)
             = \/ given(arguments.step_type) /\ given(arguments.step_name)
               \/ ~given(arguments.step_type) /\ ~given(arguments.step_name)
               \/ /\ given(arguments.step_type) /\ ~given(arguments.step_name)
                  /\ arguments.step_type \notin {PyStr(s_Training), PyStr(s_Processing)}
        /\ IsValidation(current_validation)
             = \/ ~given(arguments.step_type) /\ given(arguments.step_name)
               \/ /\ given(arguments.step_type) /\ ~given(arguments.step_name)
                  /\ arguments.step_type \in {PyStr(s_Training), PyStr(s_Processing)}

\* a validation has been constructed from a step_name alone
C20_Witness ==
    /\ pc = "inputs_constructed"
    /\ arguments.step_type = PyNone
    /\ given(arguments.step_name)
    /\ IsValidation(current_validation)
    /\ current_validation.step_type_filter = <<>>

\* the one client identifier a class supports
supported_client(cls) ==
    IF cls = "StepImagesExist" THEN <<"e", "c", "r">>
    ELSE IF cls = "StepLambdaFunctionExists" THEN <<"l", "a", "m", "b", "d", "a">>
    ELSE <<"i", "a", "m">>

\* C21: constructing StepImagesExist, StepLambdaFunctionExists or
\* StepRoleNameExists with a string client identifier other than 'ecr',
\* 'lambda', 'iam' respectively raises ValueError: no validation object exists
\* after such a call.
C21_UnsupportedClientRaises ==
    (pc \in {"client_raised", "client_constructed"}
        /\ IsStr(arguments.boto3_client)
        /\ arguments.boto3_client.str # supported_client(arguments.cls))
    => /\ pc = "client_raised"
       /\ current_validation = Raise("ValueError")
       /\ ~IsValidation(current_validation)

\* StepImagesExist(boto3_client="lambda") has raised
C21_Witness ==
    /\ pc = "client_raised"
    /\ arguments.cls = "StepImagesExist"
    /\ arguments.boto3_client = PyStr(<<"l", "a", "m", "b", "d", "a">>)
    /\ current_validation = Raise("ValueError")

\* the key ids a StepKmsKeyIdAsExpected without step_name reads: those of the
\* Processing steps, then those of the Training steps
kms_keys_of(pipeline) ==
    selected_by(Filter(PyNone, s_Processing, <<s_kms_key>>), pipeline)
    \o selected_by(Filter(PyNone, s_Training, <<s_estimator, s_output_kms_key>>), pipeline)

\* position k of the run was a StepKmsKeyIdAsExpected with Equals()
KmsEqualsAt(k) ==
    /\ self_validations.list[k].validation = "StepKmsKeyIdAsExpected"
    /\ self_validations.list[k].rule = Equals(FALSE)

\* C22: StepKmsKeyIdAsExpected with Equals() returns one ValidationResult whose
\* success is True iff the set of the key ids of the Processing steps together
\* with those of the Training steps equals {kms_key_id_expected}; on failure
\* the message contains the observed and the expected key ids.
C22_KmsKeysOfBothPathsInOneResult ==
    InRun =>
        \A k \in DOMAIN returned_by_run :
            KmsEqualsAt(k) =>
                /\ IsResult(returned_by_run[k])
                /\ returned_by_run[k].success
                     = (Range(kms_keys_of(sagemaker_pipeline))
                          = {PyStr(self_validations.list[k].kms_key_id_expected)})
                /\ ~returned_by_run[k].success =>
                       /\ Contains_str(returned_by_run[k].message,
                                       self_validations.list[k].kms_key_id_expected)
                       /\ \A i \in DOMAIN kms_keys_of(sagemaker_pipeline) :
                              Contains_str(returned_by_run[k].message,
                                           kms_keys_of(sagemaker_pipeline)[i].str)

\* the Processing step has the expected key and the Training step another:
\* the one result fails and names both keys
C22_Witness ==
    /\ InRun
    /\ \E k \in DOMAIN returned_by_run :
          /\ KmsEqualsAt(k)
          /\ kms_keys_of(sagemaker_pipeline) = <<PyStr(KeyA), PyStr(KeyB)>>
          /\ IsResult(returned_by_run[k])
          /\ ~returned_by_run[k].success
          /\ Contains_str(returned_by_run[k].message, KeyA)
          /\ Contains_str(returned_by_run[k].message, KeyB)

\* the step with tags=tags given to its processor or estimator
with_tags(step, tags) ==
    IF s_processor \in DOMAIN step.obj
    THEN PyObj((s_processor :> PyObj((s_tags :> PyList(tags)) @@ step.obj[s_processor].obj))
               @@ step.obj)
    ELSE PyObj((s_estimator :> PyObj((s_tags :> PyList(tags)) @@ step.obj[s_estimator].obj))
               @@ step.obj)

\* the pipeline with the tags of its i-th step changed
with_tags_at(pipeline, i, tags) ==
    Pipeline([j \in DOMAIN steps_of(pipeline) |->
                 IF j = i THEN with_tags(steps_of(pipeline)[j], tags) ELSE steps_of(pipeline)[j]],
             pipeline.obj[s_parameters].list)

\* the steps StepTagsAsExpected without step_name matches
tagged_steps(pipeline) ==
    {i \in DOMAIN steps_of(pipeline) :
        steps_of(pipeline)[i].obj[s_step_type] \in {StepType(s_Processing), StepType(s_Training)}}

\* C23: StepTagsAsExpected without step_name checks all steps: the verdict is
\* computed from the tags of every matching Processing and Training step, so
\* for each of them some change of its tags changes the verdict (here: of a
\* run with Equals() that succeeded).
C23_TagsOfEveryStepCount ==
    (/\ pc = "validation_done"
     /\ current_validation = StepTagsAsExpected(PyList(<<TagA>>), Equals(FALSE), PyNone)
     /\ IsResult(current_result) /\ current_result.success)
    => \A i \in tagged_steps(sagemaker_pipeline) :
           \E tags \in {<<>>, <<TagB>>, <<TagA, TagB>>} :
               ~StepTagsAsExpected_run(current_validation,
                                       with_tags_at(sagemaker_pipeline, i, tags)).success

\* the step of that name
step_named(pipeline, name) ==
    CHOOSE s \in Range(steps_of(pipeline)) : s.obj[s_name] = PyStr(name)

\* the source of the named input of the input step of a pair
source_of(pipeline, pair) ==
    (CHOOSE x \in Range(step_named(pipeline, pair.input.step_name).obj[s_inputs].list) :
         x.obj[s_input_name] = PyStr(pair.input.input_name)).obj[s_source]

\* the destination of the named output of the output step of a pair
destination_of(pipeline, pair) ==
    (CHOOSE x \in Range(step_named(pipeline, pair.output.step_name).obj[s_outputs].list) :
         x.obj[s_output_name] = PyStr(pair.output.output_name)).obj[s_destination]

\* C24: StepOutputsMatchInputsAsExpected.run returns success=True iff, for
\* every expected pair, the source of the named input of the input step equals
\* the destination of the named output of the output step.
C24_PairsMatchOneByOne ==
    (/\ pc = "match_done"
     /\ current_validation.validation = "StepOutputsMatchInputsAsExpected"
     /\ IsResult(current_result)) =>
        current_result.success
          = \A i \in DOMAIN current_validation.inputs_outputs_expected :
                source_of(pipeline_before, current_validation.inputs_outputs_expected[i])
                  = destination_of(pipeline_before, current_validation.inputs_outputs_expected[i])

\* the fields of a validation object
fields_of(self) == [name \in DOMAIN self \ {"validation"} |-> self[name]]

\* C25: a Validation is stateless between runs: a run leaves the fields of the
\* object (name, paths, step filters, expected values) unchanged, and a second
\* run on the same unmodified pipeline returns a result equal to the first.
C25_RunLeavesValidationUnchanged ==
    [][/\ (pc' \in {"match_done", "match_done_again"}) =>
              fields_of(current_validation') = fields_of(current_validation)
       /\ (pc' = "match_done_again" /\ sagemaker_pipeline = pipeline_before) =>
              current_result' = current_result]_vars

\* a second run returns what the first returned
C25_SecondRunReturnsTheSame ==
    [][(pc' = "match_done_again" /\ sagemaker_pipeline = pipeline_before) =>
           current_result' = current_result]_vars

\* cm.run has ended, by return or by raise
Ended == pc \in {"returned", "raised"}

\* every call of validation.run made so far has returned
every_run_returned == \A k \in DOMAIN returned_by_run : ~IsExc(returned_by_run[k])

IsValidationFailedError(x) == IsExc(x) /\ x.exc = "ValidationFailedError"

\* a Report, or the DataFrame made of it under return_df=True
IsReport(x) == "results" \in DOMAIN x \/ "df" \in DOMAIN x

\* the guard of RunIteration or the guard of RunReturn holds
loop_can_step ==
    ix < Len(self_validations.list) \/ ix = Len(self_validations.list)

HasUnhashableItem(x) == IsList(x) /\ \E i \in DOMAIN x.list : ~Hashable(x.list[i])

\* every item of xs equals some item of ys
members_of(xs, ys) == \A i \in DOMAIN xs : \E j \in DOMAIN ys : PyEq(xs[i], ys[j])

\* C27: when both operands of Equals(negative=False) are lists and one of them
\* holds an unhashable item, success is two-way membership: every item of
\* observed equals an item of expected and every item of expected equals an
\* item of observed, whatever the order and the number of duplicates.
C27_NestedListsCompareByMembership ==
    (/\ pc = "rule_done" /\ rule = Equals(FALSE)
     /\ IsList(observed) /\ IsList(expected)
     /\ (HasUnhashableItem(observed) \/ HasUnhashableItem(expected)))
    => /\ IsResult(rule_result)
       /\ rule_result.success
            = (members_of(observed.list, expected.list)
               /\ members_of(expected.list, observed.list))

\* Equals() has succeeded on [d, d] against [d], d a dict
C27_Witness ==
    /\ pc = "rule_done" /\ rule = Equals(FALSE)
    /\ observed = PyList(<<PyDict(<< <<Foo, Bar>> >>), PyDict(<< <<Foo, Bar>> >>)>>)
    /\ expected = PyList(<<PyDict(<< <<Foo, Bar>> >>)>>)
    /\ IsResult(rule_result) /\ rule_result.success

\* the str() of the number of instances of the processor of step s
instance_count_str(s) == str(s.obj[s_processor].obj[s_instance_count])

\* C28: a condition `lhs==rhs` keeps an element iff the string form of its lhs
\* attribute equals rhs, also when the attribute is not a string: a step whose
\* processor has instance_count 2 (an int) is kept by
\* `processor/instance_count==2`.
C28_ConditionComparesStringForms ==
    (/\ pc = "path_filtered"
     /\ query[1].kind = "instance_count"
     /\ \A i \in DOMAIN steps_of(pipeline_before) :
            hasattr(steps_of(pipeline_before)[i], s_processor))
    => /\ IsList(filtered_steps)
       /\ filtered_steps.list
            = SelectSeq(steps_of(pipeline_before),
                        LAMBDA s : instance_count_str(s) = query[1].step_type)

\* C29: the result of a validation run in a sequence of runs on the caller's
\* pipeline, as Configuration.run makes them, is the result the same validation
\* returns on the pipeline as the caller supplied it, whichever validations ran
\* before it.
C29_ResultIndependentOfEarlierRuns ==
    (pc = "validation_done") =>
        current_result = run(current_validation, pipeline_before,
                             Clients(registry, lambda_functions, iam_roles))

\* C30: an exception raised inside a validation's run is not turned into a
\* failing result: it leaves Configuration.run as it is, with fail_fast=False
\* as well; the run has no result for that validation, returns no Report, and
\* executes no validation after it.
C30_ExceptionPropagatesOutOfRun ==
    InRun =>
        \A k \in DOMAIN returned_by_run :
            IsExc(returned_by_run[k]) =>
                /\ pc = "raised"
                /\ outcome = returned_by_run[k]
                /\ ~IsValidationFailedError(outcome)
                /\ ~IsReport(outcome)
                /\ k = Len(executed)
                /\ Len(results) = k - 1

\* under fail_fast=False the second of three validations has raised IndexError
\* after the first returned a result; the third has not been executed
C30_Witness ==
    /\ pc = "raised" /\ ~fail_fast
    /\ outcome = Raise("IndexError")
    /\ executed = <<1, 2>>
    /\ Len(results) = 1
    /\ Len(self_validations.list) = 3
    /\ returned_by_run[2] = Raise("IndexError")

====
